---------------------------- MODULE Spec2Model ----------------------------
(***************************************************************************)
(* Model of the card-game assembly pipeline (src/src/card_generator.py)    *)
(* and of the template renderer (src/src/html_card_generator.py).          *)
(*                                                                         *)
(* Text that the program transforms character by character (themes, card   *)
(* types, card names, file paths) is a sequence of one-character strings;  *)
(* in text it only concatenates (descriptions, image prompts) a literal    *)
(* piece is one element of the sequence.                                   *)
(* Dictionary keys and labels the program never transforms are TLA+        *)
(* strings.  A Python value whose type the program does not check (a field *)
(* of the remote response, a field of a Card) is a tagged record           *)
(* [t |-> type tag, v |-> value].                                          *)
(***************************************************************************)
EXTENDS Integers, Sequences, FiniteSets, TLC

(***************************************************************************)
(* Bounds of the model.                                                    *)
(***************************************************************************)
\* largest num_cards of a run whose collaborators may do anything modelled
MaxCards == 2

\* largest num_cards of a run in the degraded environment (see SpecDegraded)
MaxDeckCards == 7

\* largest absolute value of a stat passed to _determine_rarity (see SpecRarity)
MaxStatValue == 11

(***************************************************************************)
(* str methods used by the program.                                        *)
(***************************************************************************)
UPPER_CHARS == {"A","B","C","D","E","F","G","H","I","J","K","L","M",
                "N","O","P","Q","R","S","T","U","V","W","X","Y","Z"}
LOWER_CHARS == {"a","b","c","d","e","f","g","h","i","j","k","l","m",
                "n","o","p","q","r","s","t","u","v","w","x","y","z"}
DIGIT_CHARS == <<"0","1","2","3","4","5","6","7","8","9">>

\* the lower-case letter of each upper-case letter, and the reverse
TO_LOWER == [A |-> "a", B |-> "b", C |-> "c", D |-> "d", E |-> "e",
             F |-> "f", G |-> "g", H |-> "h", I |-> "i", J |-> "j",
             K |-> "k", L |-> "l", M |-> "m", N |-> "n", O |-> "o",
             P |-> "p", Q |-> "q", R |-> "r", S |-> "s", T |-> "t",
             U |-> "u", V |-> "v", W |-> "w", X |-> "x", Y |-> "y",
             Z |-> "z"]
TO_UPPER == [a |-> "A", b |-> "B", c |-> "C", d |-> "D", e |-> "E",
             f |-> "F", g |-> "G", h |-> "H", i |-> "I", j |-> "J",
             k |-> "K", l |-> "L", m |-> "M", n |-> "N", o |-> "O",
             p |-> "P", q |-> "Q", r |-> "R", s |-> "S", t |-> "T",
             u |-> "U", v |-> "V", w |-> "W", x |-> "X", y |-> "Y",
             z |-> "Z"]

IsUpperChar(c) == c \in UPPER_CHARS
IsLowerChar(c) == c \in LOWER_CHARS
IsCasedChar(c) == IsUpperChar(c) \/ IsLowerChar(c)

char_lower(c) == IF IsUpperChar(c) THEN TO_LOWER[c] ELSE c

char_upper(c) == IF IsLowerChar(c) THEN TO_UPPER[c] ELSE c

\* s.lower()
str_lower(s) == [k \in 1..Len(s) |-> char_lower(s[k])]

\* s.title(): a cased character is upper-cased when it starts the string or
\* follows an uncased character, and lower-cased otherwise
str_title(s) ==
    [k \in 1..Len(s) |->
        IF k = 1 \/ ~IsCasedChar(s[k - 1])
        THEN char_upper(s[k])
        ELSE char_lower(s[k])]

\* s.replace(old, new): the non-overlapping occurrences of old, left to right
\* (from position from on: the leftmost occurrence is replaced, then the rest
\* of the string after it)
RECURSIVE str_replace_from(_, _, _, _)
str_replace_from(s, from, old, new) ==
    LET starts == {k \in from..(Len(s) - Len(old) + 1) :
                      SubSeq(s, k, k + Len(old) - 1) = old}
    IN  IF starts = {} THEN SubSeq(s, from, Len(s))
        ELSE LET first == CHOOSE k \in starts : \A j \in starts : k <= j
             IN  SubSeq(s, from, first - 1) \o new
                     \o str_replace_from(s, first + Len(old), old, new)

str_replace(s, old, new) == IF Len(old) = 0 THEN s ELSE str_replace_from(s, 1, old, new)

\* str(n) / f"{n}" of an integer
RECURSIVE nat_str(_)
nat_str(n) ==
    IF n < 10 THEN <<DIGIT_CHARS[n + 1]>>
    ELSE nat_str(n \div 10) \o <<DIGIT_CHARS[(n % 10) + 1]>>

int_str(n) == IF n < 0 THEN <<"-">> \o nat_str(-n) ELSE nat_str(n)

\* os.path.join(a, b)
path_join(a, b) == a \o <<"/">> \o b

IsPrefix(p, s) == Len(p) <= Len(s) /\ SubSeq(s, 1, Len(p)) = p

\* os.path.dirname(p): what precedes the last separator
path_dirname(p) ==
    LET seps == {k \in 1..Len(p) : p[k] = "/"}
    IN  IF seps = {} THEN <<>>
        ELSE SubSeq(p, 1, (CHOOSE k \in seps : \A j \in seps : j <= k) - 1)

(***************************************************************************)
(* Python values.                                                          *)
(***************************************************************************)
PyStr(s) == [t |-> "str", v |-> s]
PyInt(n) == [t |-> "int", v |-> n]
PyDict(d) == [t |-> "dict", v |-> d]
PyList(l) == [t |-> "list", v |-> l]
PyNone == [t |-> "None", v |-> 0]

\* the result of evaluating an expression: a value, or an exception class
Value(x) == [exc |-> "none", val |-> x]
Raise(e) == [exc |-> e, val |-> PyNone]

\* obj[key] for a string key
py_getitem(obj, key) ==
    IF obj.t = "dict"
    THEN IF key \in DOMAIN obj.v THEN Value(obj.v[key]) ELSE Raise("KeyError")
    ELSE Raise("TypeError")

\* obj[0]
py_getitem0(obj) ==
    IF obj.t = "list"
    THEN IF Len(obj.v) > 0 THEN Value(obj.v[1]) ELSE Raise("IndexError")
    ELSE IF obj.t = "dict" THEN Raise("KeyError")
    ELSE Raise("TypeError")

(***************************************************************************)
(* Constants of card_generator.py.                                         *)
(***************************************************************************)
FANTASY_TYPES == << <<"c","r","e","a","t","u","r","e">>,
                    <<"s","p","e","l","l">>,
                    <<"a","r","t","i","f","a","c","t">>,
                    <<"e","n","c","h","a","n","t","m","e","n","t">>,
                    <<"h","e","r","o">> >>

SCIFI_TYPES == << <<"r","o","b","o","t">>,
                  <<"t","e","c","h">>,
                  <<"w","e","a","p","o","n">>,
                  <<"v","e","h","i","c","l","e">>,
                  <<"a","l","i","e","n">> >>

\* the dict as its (key, value) items
THEME_CARD_TYPES ==
    << << <<"f","a","n","t","a","s","y">>, FANTASY_TYPES >>,
       << <<"m","e","d","i","e","v","a","l">>, FANTASY_TYPES >>,
       << <<"m","a","g","i","c">>, FANTASY_TYPES >>,
       << <<"s","c","i","-","f","i">>, SCIFI_TYPES >>,
       << <<"s","c","i","e","n","c","e"," ","f","i","c","t","i","o","n">>, SCIFI_TYPES >>,
       << <<"f","u","t","u","r","i","s","t","i","c">>, SCIFI_TYPES >>,
       << <<"s","p","a","c","e">>, SCIFI_TYPES >> >>

DEFAULT_CARD_TYPES == << <<"c","h","a","r","a","c","t","e","r">>,
                         <<"a","c","t","i","o","n">>,
                         <<"i","t","e","m">>,
                         <<"l","o","c","a","t","i","o","n">>,
                         <<"e","v","e","n","t">> >>

\* items.get(key, default) on a dict given as its items
items_get(items, key, default) ==
    IF \E k \in DOMAIN items : items[k][1] = key
    THEN items[CHOOSE k \in DOMAIN items : items[k][1] = key][2]
    ELSE default

\* a variant that looks the theme up as it was typed
_get_card_types_for_theme_exact(th) ==
    items_get(THEME_CARD_TYPES, th, DEFAULT_CARD_TYPES)

_get_card_types_for_theme(th) ==
    LET theme_lower == str_lower(th)
    IN  items_get(THEME_CARD_TYPES, theme_lower, DEFAULT_CARD_TYPES)

\* Card(name, description, image_prompt, stats, card_type): no field is validated
Card(name, description, image_prompt, stats, card_type) ==
    [name |-> name, description |-> description, image_prompt |-> image_prompt,
     stats |-> stats, card_type |-> card_type]

\* a variant whose Cost is computed from the 0-based index
_create_fallback_card_cost0(th, card_type, index) ==
    Card(PyStr(<<"G","e","n","e","r","i","c"," ">> \o str_title(card_type)
               \o <<" ">> \o int_str(index + 1)),
         PyStr(<<"A ">> \o card_type \o <<" card for the ">> \o th
               \o <<" theme. (API Error Fallback)">>),
         PyStr(<<"A ">> \o th \o <<" ">> \o card_type
               \o <<" card artwork, digital art, detailed">>),
         PyDict([Power |-> PyInt(index + 1),
                 Cost |-> PyInt((index \div 2) + 1),
                 Health |-> PyInt(index + 2)]),
         PyStr(card_type))

_create_fallback_card(th, card_type, index) ==
    Card(PyStr(<<"G","e","n","e","r","i","c"," ">> \o str_title(card_type)
               \o <<" ">> \o int_str(index + 1)),
         PyStr(<<"A ">> \o card_type \o <<" card for the ">> \o th
               \o <<" theme. (API Error Fallback)">>),
         PyStr(<<"A ">> \o th \o <<" ">> \o card_type
               \o <<" card artwork, digital art, detailed">>),
         PyDict([Power |-> PyInt(index + 1),
                 Cost |-> PyInt(((index + 1) \div 2) + 1),
                 Health |-> PyInt(index + 2)]),
         PyStr(card_type))

_get_fallback_image_path ==
    <<"s","r","c","/",".",".","/","a","s","s","e","t","s","/","c","a","r","d","_",
      "t","e","m","p","l","a","t","e",".","j","p","g">>

(***************************************************************************)
(* Exceptions: the classes the program's handlers name, and the classes    *)
(* raised by the calls it makes.                                           *)
(***************************************************************************)
IsInstance(e, cls) ==
    \/ e = cls
    \/ cls = "RequestException"
        /\ e \in {"ConnectionError", "Timeout", "HTTPError", "RequestsJSONDecodeError"}
    \/ cls = "JSONDecodeError" /\ e = "RequestsJSONDecodeError"
    \/ cls = "OSError" /\ e \in {"FileNotFoundError", "PermissionError"}
    \/ cls = "Exception" /\ e # "none"

(***************************************************************************)
(* The text-generation endpoint's answers.  A JSON text is modelled by     *)
(* whether it parses and by the value it parses to.                        *)
(***************************************************************************)
JsonText(valid, value) == [valid |-> valid, json |-> value]

Response(error, status, body) == [error |-> error, status |-> status, body |-> body]

\* json.loads(s)
json_loads(s) ==
    IF s.t # "str" THEN Raise("TypeError")
    ELSE IF ~s.v.valid THEN Raise("JSONDecodeError")
    ELSE Value(s.v.json)

\* a well-formed answer: {"choices": [{"message": {"content": <text>}}]}
ChatAnswer(content) ==
    Response("none", 200,
        JsonText(TRUE,
            PyDict([choices |-> PyList(<<PyDict([message |->
                        PyDict([content |-> content])])>>)])))

CardJson(name, description, image_prompt, stats, card_type) ==
    PyDict([name |-> name, description |-> description,
            image_prompt |-> image_prompt, stats |-> stats, card_type |-> card_type])

\* a well-typed card object; its name ends in a number
RemoteCardA ==
    CardJson(PyStr(<<"A","b"," ","1">>), PyStr(<<"A shield.">>),
             PyStr(<<"a shield">>),
             PyDict([Attack |-> PyInt(10), Defense |-> PyInt(11)]),
             PyStr(<<"h","e","r","o">>))

\* a well-typed card object whose name holds a path separator
RemoteCardSlash ==
    CardJson(PyStr(<<"A","/","b">>), PyStr(<<"A gate.">>), PyStr(<<"a gate">>),
             PyDict([Attack |-> PyInt(3)]), PyStr(<<"i","t","e","m">>))

\* a card object with its five fields, none of the expected type
RemoteCardUntyped ==
    CardJson(PyInt(7), PyNone, PyNone, PyStr(<<"n","o","n","e">>), PyNone)

\* the answers the endpoint is modelled to give
RESPONSES ==
    << Response("ConnectionError", 0, JsonText(FALSE, PyNone)),
       Response("Timeout", 0, JsonText(FALSE, PyNone)),
       Response("none", 500, JsonText(FALSE, PyNone)),
       Response("none", 200, JsonText(FALSE, PyNone)),
       Response("none", 200, JsonText(TRUE, PyDict([error |-> PyStr(<<"b","u","s","y">>)]))),
       Response("none", 200, JsonText(TRUE, PyDict([choices |-> PyList(<<>>)]))),
       Response("none", 200, JsonText(TRUE, PyDict([choices |-> PyList(<<PyDict([index |-> PyInt(0)])>>)]))),
       ChatAnswer(PyNone),
       ChatAnswer(PyStr(JsonText(FALSE, PyNone))),
       ChatAnswer(PyStr(JsonText(TRUE, PyList(<<RemoteCardA>>)))),
       ChatAnswer(PyStr(JsonText(TRUE, PyDict([name |-> PyStr(<<"A","b"," ","1">>)])))),
       ChatAnswer(PyStr(JsonText(TRUE, RemoteCardUntyped))),
       ChatAnswer(PyStr(JsonText(TRUE, RemoteCardSlash))),
       ChatAnswer(PyStr(JsonText(TRUE, RemoteCardA))) >>

\* the try block of generate_card_data: the Card, or the exception raised
generate_card_data_try(resp) ==
    IF resp.error # "none" THEN Raise(resp.error)
    ELSE IF resp.status >= 400 THEN Raise("HTTPError")
    ELSE IF ~resp.body.valid THEN Raise("RequestsJSONDecodeError")
    ELSE
    LET response_json == resp.body.json
        choices == py_getitem(response_json, "choices")
    IN  IF choices.exc # "none" THEN choices ELSE
    LET first == py_getitem0(choices.val)
    IN  IF first.exc # "none" THEN first ELSE
    LET message == py_getitem(first.val, "message")
    IN  IF message.exc # "none" THEN message ELSE
    LET content == py_getitem(message.val, "content")
    IN  IF content.exc # "none" THEN content ELSE
    LET card_data == json_loads(content.val)
    IN  IF card_data.exc # "none" THEN card_data ELSE
    LET name == py_getitem(card_data.val, "name")
        description == py_getitem(card_data.val, "description")
        image_prompt == py_getitem(card_data.val, "image_prompt")
        stats == py_getitem(card_data.val, "stats")
        card_type == py_getitem(card_data.val, "card_type")
    IN  IF name.exc # "none" THEN name
        ELSE IF description.exc # "none" THEN description
        ELSE IF image_prompt.exc # "none" THEN image_prompt
        ELSE IF stats.exc # "none" THEN stats
        ELSE IF card_type.exc # "none" THEN card_type
        ELSE Value(Card(name.val, description.val, image_prompt.val,
                        stats.val, card_type.val))

\* the exception classes generate_card_data handles
generate_card_data_handled ==
    {"RequestException", "JSONDecodeError", "KeyError"}

\* generate_card_data: [exc |-> the exception that leaves the function, or "none",
\*                      none |-> whether None is returned, card |-> the Card returned]
generate_card_data(th, card_type, resp) ==
    LET r == generate_card_data_try(resp)
    IN  IF r.exc = "none" THEN [exc |-> "none", none |-> FALSE, card |-> r.val]
        ELSE IF \E cls \in generate_card_data_handled : IsInstance(r.exc, cls)
        THEN [exc |-> "none", none |-> TRUE, card |-> PyNone]
        ELSE [exc |-> r.exc, none |-> FALSE, card |-> PyNone]

(***************************************************************************)
(* The file system: fs maps the path of every regular file to its content, *)
(* dirs is the set of directories.                                         *)
(***************************************************************************)
FileContent(kind, data) == [kind |-> kind, data |-> data]

\* the file at path holds content afterwards, every other file is untouched
fs_write(files, path, content) ==
    [p \in (DOMAIN files) \cup {path} |-> IF p = path THEN content ELSE files[p]]

\* a variant that removes every file of the directory of path
fs_remove_siblings(files, path) ==
    [p \in {q \in DOMAIN files : path_dirname(q) # path_dirname(path)} |-> files[p]]

\* os.remove(path)
fs_remove(files, path) == [p \in (DOMAIN files) \ {path} |-> files[p]]

\* os.makedirs(path, exist_ok=True): the directory and every ancestor of it
makedirs(directories, path) ==
    directories \cup {path}
        \cup {SubSeq(path, 1, k - 1) : k \in {j \in 2..Len(path) : path[j] = "/"}}

\* whether open(path, 'w') can create the file
can_create(directories, path) == path_dirname(path) \in directories

(***************************************************************************)
(* generate_card_image.  env is what the image endpoint and the disk do    *)
(* during the call.                                                        *)
(***************************************************************************)
ImageEnv(net, disk) == [net |-> net, disk |-> disk]

IMAGE_ENVS ==
    << ImageEnv("ok", "ok"),
       ImageEnv("ConnectionError", "ok"),
       ImageEnv("HTTPError", "ok"),
       ImageEnv("ok", "open_fails") >>

\* the try block: [exc, fs, dirs, requests]; requests counts the calls of
\* requests.get; os.makedirs of an empty directory name raises FileNotFoundError
generate_card_image_try(image_prompt, output_path, env, files, directories) ==
    IF image_prompt.t # "str"
    THEN [exc |-> "TypeError", fs |-> files, dirs |-> directories, requests |-> 0]
    ELSE IF env.net # "ok"
    THEN [exc |-> env.net, fs |-> files, dirs |-> directories, requests |-> 1]
    ELSE IF path_dirname(output_path) = <<>>
    THEN [exc |-> "FileNotFoundError", fs |-> files, dirs |-> directories,
          requests |-> 1]
    ELSE
    LET made == makedirs(directories, path_dirname(output_path))
    IN  IF env.disk = "open_fails" \/ ~can_create(made, output_path)
        THEN [exc |-> "PermissionError", fs |-> files, dirs |-> made, requests |-> 1]
        ELSE IF env.disk = "write_fails"
        THEN [exc |-> "OSError",
              fs |-> fs_write(files, output_path, FileContent("artwork", "truncated")),
              dirs |-> made, requests |-> 1]
        ELSE [exc |-> "none",
              fs |-> fs_write(files, output_path, FileContent("artwork", "body")),
              dirs |-> made, requests |-> 1]

generate_card_image_handled == {"RequestException", "OSError"}

\* a variant that handles only the network errors
generate_card_image_net_only(image_prompt, output_path, env, files, directories) ==
    LET r == generate_card_image_try(image_prompt, output_path, env, files, directories)
    IN  IF r.exc = "none"
        THEN [exc |-> "none", ret |-> TRUE, fs |-> r.fs, dirs |-> r.dirs,
              requests |-> r.requests]
        ELSE IF IsInstance(r.exc, "RequestException")
        THEN [exc |-> "none", ret |-> FALSE, fs |-> r.fs, dirs |-> r.dirs,
              requests |-> r.requests]
        ELSE [exc |-> r.exc, ret |-> FALSE, fs |-> r.fs, dirs |-> r.dirs,
              requests |-> r.requests]

\* generate_card_image: [exc |-> the exception that leaves the function, or "none",
\*                       ret |-> the boolean returned, fs, dirs, requests]
generate_card_image(image_prompt, output_path, env, files, directories) ==
    LET r == generate_card_image_try(image_prompt, output_path, env, files, directories)
    IN  IF r.exc = "none"
        THEN [exc |-> "none", ret |-> TRUE, fs |-> r.fs, dirs |-> r.dirs,
              requests |-> r.requests]
        ELSE IF \E cls \in generate_card_image_handled : IsInstance(r.exc, cls)
        THEN [exc |-> "none", ret |-> FALSE, fs |-> r.fs, dirs |-> r.dirs,
              requests |-> r.requests]
        ELSE [exc |-> r.exc, ret |-> FALSE, fs |-> r.fs, dirs |-> r.dirs,
              requests |-> r.requests]

(***************************************************************************)
(* html_card_generator.py                                                  *)
(***************************************************************************)
\* the registry as its (id, info) items, in declaration order
TEMPLATES ==
    << <<"bright_swiss", [filename |-> "bright_swiss_template.html",
                          name |-> "Bright Swiss Design"]>>,
       <<"detailed", [filename |-> "detailed_representation_template.html",
                      name |-> "Detailed Representation"]>> >>

TemplateFiles == {TEMPLATES[k][2].filename : k \in DOMAIN TEMPLATES}

\* get_available_templates(): the items of the returned dict, in insertion order;
\* existing is the set of template files present under assets/
get_available_templates(existing) ==
    LET present(item) == item[2].filename \in existing
        info(item) == <<item[1], [name |-> item[2].name, path |-> item[2].filename]>>
        kept == SelectSeq(TEMPLATES, present)
    IN  [k \in 1..Len(kept) |-> info(kept[k])]

\* the keys of a dict given as its items
items_keys(items) == [k \in 1..Len(items) |-> items[k][1]]

items_has(items, key) == \E k \in DOMAIN items : items[k][1] = key

\* bool(x)
py_truthy(x) ==
    CASE x.t = "None" -> FALSE
      [] x.t = "int" -> x.v # 0
      [] x.t = "str" -> Len(x.v) > 0
      [] x.t = "list" -> Len(x.v) > 0
      [] x.t = "dict" -> DOMAIN x.v # {}
      [] OTHER -> TRUE

\* sum of the values of a dict of integers
RECURSIVE sum_values(_, _)
sum_values(d, keys) ==
    IF keys = {} THEN 0
    ELSE LET k == CHOOSE x \in keys : TRUE
         IN  d[k].v + sum_values(d, keys \ {k})

\* a variant whose thresholds are inclusive
_determine_rarity_inclusive(stats) ==
    IF py_truthy(stats) /\ stats.t # "dict" THEN Raise("AttributeError")
    ELSE IF py_truthy(stats) /\ \E k \in DOMAIN stats.v : stats.v[k].t # "int"
    THEN Raise("TypeError")
    ELSE
    LET total == IF py_truthy(stats) THEN sum_values(stats.v, DOMAIN stats.v) ELSE 0
    IN  IF total >= 20 THEN Value("Legendary")
        ELSE IF total >= 15 THEN Value("Epic")
        ELSE IF total >= 10 THEN Value("Rare")
        ELSE Value("Common")

\* _determine_rarity(stats): the rarity, or the exception raised
_determine_rarity(stats) ==
    IF py_truthy(stats) /\ stats.t # "dict" THEN Raise("AttributeError")
    ELSE IF py_truthy(stats) /\ \E k \in DOMAIN stats.v : stats.v[k].t # "int"
    THEN Raise("TypeError")
    ELSE
    LET total == IF py_truthy(stats) THEN sum_values(stats.v, DOMAIN stats.v) ELSE 0
    IN  IF total > 20 THEN Value("Legendary")
        ELSE IF total > 15 THEN Value("Epic")
        ELSE IF total > 10 THEN Value("Rare")
        ELSE Value("Common")

\* _generate_stats_html(stats): the exception raised, or "none"
_generate_stats_html_exc(stats) ==
    IF ~py_truthy(stats) THEN "none"
    ELSE IF stats.t # "dict" THEN "AttributeError"
    ELSE "none"

\* lines 210-228 of create_html_card: the exception raised while the derived
\* fields are computed and substituted, or "none"
create_html_card_prepare_exc(crd) ==
    IF _generate_stats_html_exc(crd.stats) # "none"
    THEN _generate_stats_html_exc(crd.stats)
    ELSE IF _determine_rarity(crd.stats).exc # "none"
    THEN _determine_rarity(crd.stats).exc
    ELSE IF crd.card_type.t # "str" THEN "AttributeError"
    ELSE IF crd.name.t # "str" THEN "TypeError"
    ELSE IF py_truthy(crd.description) /\ crd.description.t # "str" THEN "TypeError"
    ELSE "none"

\* f"{card_number:03d}"
zero_padded3(n) ==
    LET digits == nat_str(n)
    IN  IF Len(digits) >= 3 THEN digits
        ELSE [k \in 1..(3 - Len(digits)) |-> "0"] \o digits

\* _encode_image_to_base64(image_path): a data URL when the image exists (the
\* bundled placeholder always does), a fixed placeholder URL otherwise
_encode_image_to_base64(image_path, files) ==
    IF image_path \in DOMAIN files \/ image_path = _get_fallback_image_path
    THEN <<"data:image/png;base64,", "<base64 of the image>">>
    ELSE <<"https://placehold.co/428x350/000/FFF?text=Image+Not+Found">>

\* the markup of the stats named in names (the label is written as its stat
\* name; its upper-casing is not modelled)
RECURSIVE stats_markup(_, _)
stats_markup(d, names) ==
    IF names = {} THEN <<>>
    ELSE LET name == CHOOSE x \in names : TRUE
         IN  <<"<stat-label>", name, "<stat-value>">> \o int_str(d[name].v)
                 \o stats_markup(d, names \ {name})

\* _generate_stats_html(stats), for stats that raise nothing
_generate_stats_html(stats) ==
    IF ~py_truthy(stats) THEN <<"No Stats Available">>
    ELSE stats_markup(stats.v, DOMAIN stats.v)

\* lines 217-225: the replacements dict as its (placeholder, value) items
replacements(crd, img_src, card_number) ==
    << <<"{{CARD_NAME}}", crd.name.v>>,
       <<"{{CARD_TYPE}}", str_title(crd.card_type.v)>>,
       <<"{{CARD_IMAGE_URL}}", img_src>>,
       <<"{{CARD_DESCRIPTION}}",
         IF py_truthy(crd.description) THEN crd.description.v ELSE <<>> >>,
       <<"{{CARD_STATS}}", _generate_stats_html(crd.stats)>>,
       <<"{{CARD_RARITY}}", <<_determine_rarity(crd.stats).val>> >>,
       <<"{{CARD_NUMBER}}", zero_padded3(card_number)>> >>

\* lines 227-228: html_content after the replacements k, k+1, ... in dict order
RECURSIVE replace_each(_, _, _)
replace_each(html_content, items, k) ==
    IF k > Len(items) THEN html_content
    ELSE replace_each(str_replace(html_content, <<items[k][1]>>, items[k][2]),
                      items, k + 1)

\* lines 210-228: the document made from the template text.  A template is a
\* sequence whose elements are placeholder tokens and literal pieces.
html_document(text, crd, card_image_path, card_number, files) ==
    replace_each(text,
                 replacements(crd, _encode_image_to_base64(card_image_path, files),
                              card_number),
                 1)

\* line 231
temp_html_path_of(output_path) ==
    str_replace(output_path, <<".","p","n","g">>,
                <<"_","t","e","m","p",".","h","t","m","l">>)

RenderEnv(template, text, temp, rasterizer) ==
    [template |-> template, text |-> text, temp |-> temp, rasterizer |-> rasterizer]

\* the text of the template file the pipeline renders with
PIPELINE_TEMPLATE == <<"<card>", "{{CARD_NUMBER}}", "</card>">>

\* what the template file, the disk and the rasterizer do during one call
RENDER_ENVS ==
    << RenderEnv("ok", PIPELINE_TEMPLATE, "ok", "exit_0"),
       RenderEnv("ok", PIPELINE_TEMPLATE, "ok", "exit_1"),
       RenderEnv("ok", PIPELINE_TEMPLATE, "ok", "not_found"),
       RenderEnv("ok", PIPELINE_TEMPLATE, "open_fails", "exit_0"),
       RenderEnv("missing", <<>>, "ok", "exit_0") >>

\* a variant that does not read the exit status
_run_wkhtmltoimage_unchecked(html_path, output_path, env, files) ==
    IF env.rasterizer = "not_found"
    THEN [exc |-> "FileNotFoundError", ret |-> FALSE, fs |-> files]
    ELSE IF env.rasterizer # "exit_0"
    THEN [exc |-> "none", ret |-> TRUE, fs |-> files]
    ELSE [exc |-> "none", ret |-> TRUE,
          fs |-> fs_write(files, output_path, FileContent("png", "card"))]

\* _run_wkhtmltoimage(html_path, output_path): [exc, ret, fs]
_run_wkhtmltoimage(html_path, output_path, env, files) ==
    IF env.rasterizer = "not_found"
    THEN [exc |-> "FileNotFoundError", ret |-> FALSE, fs |-> files]
    ELSE IF env.rasterizer # "exit_0"
    THEN [exc |-> "none", ret |-> FALSE, fs |-> files]
    ELSE [exc |-> "none", ret |-> TRUE,
          fs |-> fs_write(files, output_path, FileContent("png", "card"))]

\* the try block of create_html_card: [exc, ret, fs]
create_html_card_try(crd, card_image_path, tpath, output_path, card_number, env, files, directories) ==
    IF env.template = "missing"
    THEN [exc |-> "FileNotFoundError", ret |-> FALSE, fs |-> files]
    ELSE IF create_html_card_prepare_exc(crd) # "none"
    THEN [exc |-> create_html_card_prepare_exc(crd), ret |-> FALSE, fs |-> files]
    ELSE
    LET temp_html_path == temp_html_path_of(output_path)
    IN  IF env.temp = "open_fails" \/ ~can_create(directories, temp_html_path)
        THEN [exc |-> "FileNotFoundError", ret |-> FALSE, fs |-> files]
        ELSE IF env.temp = "write_fails"
        THEN [exc |-> "OSError", ret |-> FALSE,
              fs |-> fs_write(files, temp_html_path, FileContent("html", "truncated"))]
        ELSE
        LET html_content == html_document(env.text, crd, card_image_path, card_number,
                                          files)
            written == fs_write(files, temp_html_path, FileContent("html", html_content))
            run == _run_wkhtmltoimage(temp_html_path, output_path, env, written)
        IN  IF run.exc # "none" THEN run
            ELSE [exc |-> "none", ret |-> run.ret,
                  fs |-> IF temp_html_path \in DOMAIN run.fs
                         THEN fs_remove(run.fs, temp_html_path)
                         ELSE run.fs]

\* the exception classes create_html_card handles (lines 244-249)
create_html_card_handled == {"FileNotFoundError", "Exception"}

\* a variant without the handlers of lines 244-249
create_html_card_unguarded(crd, card_image_path, tpath, output_path, card_number, env, files, directories) ==
    LET r == create_html_card_try(crd, card_image_path, tpath, output_path,
                                  card_number, env, files, directories)
    IN  [exc |-> r.exc, ret |-> r.exc = "none" /\ r.ret, fs |-> r.fs]

\* create_html_card: [exc |-> the exception that leaves the function, or "none",
\*                    ret |-> the boolean returned, fs]
create_html_card(crd, card_image_path, tpath, output_path, card_number, env, files, directories) ==
    LET r == create_html_card_try(crd, card_image_path, tpath, output_path,
                                  card_number, env, files, directories)
    IN  IF r.exc = "none" THEN [exc |-> "none", ret |-> r.ret, fs |-> r.fs]
        ELSE IF \E cls \in create_html_card_handled : IsInstance(r.exc, cls)
        THEN [exc |-> "none", ret |-> FALSE, fs |-> r.fs]
        ELSE [exc |-> r.exc, ret |-> FALSE, fs |-> r.fs]

(***************************************************************************)
(* create_card_game_zip as a state machine.  pc is the position of the     *)
(* run; the other variables are the function's arguments and locals, the   *)
(* file system, and what the caller and the collaborators observe.         *)
(***************************************************************************)
VARIABLES
    pc,                 \* position of the run
    theme,              \* argument
    num_cards,          \* argument
    template_style,     \* argument, reassigned at line 284
    progress_callback,  \* argument: whether a progress sink was passed
    requested_style,    \* the value template_style was passed with
    project_dir,        \* local
    cards_dir,          \* local
    game_info_dir,      \* local
    templates,          \* local: the items of get_available_templates()
    template_path,      \* local
    template_name,      \* local
    card_types,         \* local
    total_steps,        \* local
    current_step,       \* local
    generated_cards,    \* local
    i,                  \* loop index
    card_filename_base, \* local of the loop body
    raw_image_path,     \* local of the loop body
    fs,                 \* regular files: path -> content
    dirs,               \* directories
    events,             \* the calls received by the progress sink, in order
    content_calls,      \* the calls of generate_card_data: card type and outcome
    image_calls,        \* the booleans returned by generate_card_image, in order
    render_calls,       \* the booleans returned by create_html_card, in order
    raised,             \* the exception that left create_card_game_zip, or "none"
    returned,           \* the value returned by create_card_game_zip, or <<>>
    call,               \* a direct call of one function: its name and arguments
    result,             \* what the direct call returned or raised
    generate_button,    \* GUI: state of the generate button
    theme_var,          \* GUI: text of the theme entry
    num_cards_var,      \* GUI: text of the card count spinbox
    output_dir_var,     \* GUI: text of the output directory entry
    gui_templates,      \* GUI: self.templates, the items of the dict
    threads,            \* GUI: the worker threads started, in order
    after_queue,        \* GUI: the tasks scheduled with root.after, in order
    messagebox          \* GUI: the last message box shown, or "none"

args == <<theme, num_cards, template_style, progress_callback, requested_style>>
paths == <<project_dir, cards_dir, game_info_dir>>
catalog == <<templates, template_path, template_name>>
locals == <<card_types, total_steps, current_step, generated_cards, i,
            card_filename_base, raw_image_path>>
disk == <<fs, dirs>>
observed == <<events, content_calls, image_calls, render_calls, raised, returned>>
direct == <<call, result>>
gui == <<generate_button, theme_var, num_cards_var, output_dir_var, gui_templates,
         threads, after_queue, messagebox>>
vars == <<pc, args, paths, catalog, locals, disk, observed, direct, gui>>

\* the themes, template ids and output directory a run is started with
THEMES == << <<"F","a","n","t","a","s","y">>,
             <<"O","l","d"," ","W","e","s","t">> >>

STYLE_REQUESTS == <<"detailed", "neon">>

OUTPUT_DIR == <<"o","u","t">>

\* lines 274-275
project_dir_of(th) ==
    LET safe_theme == str_lower(str_replace(th, <<" ">>, <<"_">>))
    IN  path_join(OUTPUT_DIR, safe_theme \o <<"_","c","a","r","d","_","g","a","m","e">>)

\* a variant that leaves the loop index out of the file name
filename_base_unindexed(name, k) ==
    str_lower(str_replace(name, <<" ">>, <<"_">>))

\* line 318: the file name base of a card named name at loop index k
filename_base(name, k) ==
    str_lower(str_replace(name, <<" ">>, <<"_">>)) \o <<"_">> \o int_str(k)

\* a variant that gives every card the same JSON file
json_path_shared(cdir, base) == path_join(cdir, <<"c","a","r","d",".","j","s","o","n">>)

\* lines 319, 327, 338
json_path_of(cdir, base) == path_join(cdir, base \o <<".","j","s","o","n">>)
raw_path_of(cdir, base) == path_join(cdir, <<"r","a","w","_">> \o base \o <<".","p","n","g">>)
playable_path_of(cdir, base) == path_join(cdir, base \o <<".","p","n","g">>)

\* lines 343, 348, 353
rules_path_of(gdir) == path_join(gdir, <<"g","a","m","e","_","r","u","l","e","s",".","t","x","t">>)
readme_path_of(pdir) == path_join(pdir, <<"R","E","A","D","M","E",".","m","d">>)
zip_path_of(pdir) == pdir \o <<".","z","i","p">>

\* a variant that substitutes the last available id
resolve_template_style_last(tpls, style) ==
    LET available == items_keys(tpls)
    IN  IF items_has(tpls, style) THEN style
        ELSE IF Len(available) > 0 THEN available[Len(available)]
        ELSE "bright_swiss"

\* lines 281-284: the template id used for the id asked for
resolve_template_style(tpls, style) ==
    LET available == items_keys(tpls)
    IN  IF items_has(tpls, style) THEN style
        ELSE IF Len(available) > 0 THEN available[1]
        ELSE "bright_swiss"

\* line 303: the card type of loop index k
card_type_at(types, k) == types[(k % Len(types)) + 1]

\* a variant that reports the first step of the current card
emit_card_start(label, step) ==
    IF progress_callback
    THEN Append(events, [label |-> label, step |-> IF label = "done" THEN step ELSE 3 * i,
                         total |-> total_steps])
    ELSE events

\* progress_callback(message, current_step, total_steps), when a sink was passed
emit(label, step) ==
    IF progress_callback
    THEN Append(events, [label |-> label, step |-> step, total |-> total_steps])
    ELSE events

\* the exception e leaves create_card_game_zip
Propagate(e) == pc' = "raised" /\ raised' = e

\* what the exception that leaves create_card_game_zip tells the caller: its
\* class, and the card index attached to it (-1: none).  Lines 302-340 hold no
\* handler, so the exception is the one the callee raised and carries no index.
abort_report == [error |-> raised, card_index |-> -1]

\* the card counts the GUI accepts (gui.py, lines 29-30)
MIN_CARDS == 1
MAX_CARDS == 20

\* a variant that stops the loop at MAX_CARDS cards
loop_pc_capped(k) == IF k < num_cards /\ k < MAX_CARDS THEN "data" ELSE "rules"

\* the position after the loop header, for loop index k
loop_pc(k) == IF k < num_cards THEN "data" ELSE "rules"

\* no call has been made yet
Blank ==
    /\ theme = <<>>
    /\ num_cards = 0
    /\ template_style = ""
    /\ progress_callback = FALSE
    /\ requested_style = ""
    /\ project_dir = <<>>
    /\ cards_dir = <<>>
    /\ game_info_dir = <<>>
    /\ templates = <<>>
    /\ template_path = ""
    /\ template_name = ""
    /\ card_types = <<>>
    /\ total_steps = 0
    /\ current_step = 0
    /\ generated_cards = <<>>
    /\ i = 0
    /\ card_filename_base = <<>>
    /\ raw_image_path = <<>>
    /\ fs = <<>>
    /\ dirs = {}
    /\ events = <<>>
    /\ content_calls = <<>>
    /\ image_calls = <<>>
    /\ render_calls = <<>>
    /\ raised = "none"
    /\ returned = <<>>

\* no function is called directly
NoDirectCall == call = [fn |-> "none"] /\ result = [fn |-> "none"]

\* no window has been created
NoGui ==
    /\ generate_button = "none"
    /\ theme_var = <<>>
    /\ num_cards_var = <<>>
    /\ output_dir_var = <<>>
    /\ gui_templates = <<>>
    /\ threads = <<>>
    /\ after_queue = <<>>
    /\ messagebox = "none"

Init == pc = "idle" /\ Blank /\ NoDirectCall /\ NoGui

\* the call create_card_game_zip(theme, output_dir, num_cards, template_style, cb)
\* and lines 274-277; the arguments are drawn from the given themes, counts,
\* template ids and sink choices
CallWith(themes, counts, styles, sinks) ==
    /\ pc = "idle"
    /\ \E t \in DOMAIN themes, n \in counts, st \in DOMAIN styles, cb \in sinks :
        /\ theme' = themes[t]
        /\ project_dir' = project_dir_of(themes[t])
        /\ cards_dir' = path_join(project_dir_of(themes[t]), <<"c","a","r","d","s">>)
        /\ game_info_dir' = path_join(project_dir_of(themes[t]),
                                      <<"g","a","m","e","_","i","n","f","o">>)
        /\ num_cards' = n
        /\ template_style' = styles[st]
        /\ requested_style' = styles[st]
        /\ progress_callback' = cb
    /\ pc' = "resolve"
    /\ UNCHANGED <<gui, direct, catalog, locals, disk, observed>>

Call == CallWith(THEMES, 0..MaxCards, STYLE_REQUESTS, BOOLEAN)

\* lines 279-287: the catalog is read and the template id resolved; the set of
\* template files present is one of installs
ResolveTemplateWith(installs) ==
    /\ pc = "resolve"
    /\ \E existing \in installs :
        LET tpls == get_available_templates(existing)
            style == resolve_template_style(tpls, template_style)
        IN  /\ templates' = tpls
            /\ template_style' = style
            /\ IF items_has(tpls, style)
               THEN /\ template_path' = items_get(tpls, style, <<>>).path
                    /\ template_name' = items_get(tpls, style, <<>>).name
                    /\ pc' = "mkdirs"
                    /\ raised' = raised
               ELSE /\ Propagate("KeyError")
                    /\ UNCHANGED <<template_path, template_name>>
    /\ UNCHANGED <<gui, direct, theme, num_cards, progress_callback, requested_style, paths, locals,
                   disk, events, content_calls, image_calls, render_calls, returned>>

ResolveTemplate == ResolveTemplateWith(SUBSET TemplateFiles)

\* lines 289-299: the directories are created and the loop is set up; whether
\* the directories can be created is one of outcomes
CreateDirectoriesWith(outcomes) ==
    /\ pc = "mkdirs"
    /\ \E ok \in outcomes :
        IF ok
        THEN /\ dirs' = makedirs(makedirs(dirs, cards_dir), game_info_dir)
             /\ card_types' = _get_card_types_for_theme(theme)
             /\ total_steps' = num_cards * 3
             /\ current_step' = 0
             /\ generated_cards' = <<>>
             /\ i' = 0
             /\ pc' = loop_pc(0)
             /\ raised' = raised
        ELSE /\ Propagate("PermissionError")
             /\ UNCHANGED <<dirs, card_types, total_steps, current_step,
                            generated_cards, i>>
    /\ UNCHANGED <<gui, direct, args, paths, catalog, card_filename_base, raw_image_path, fs,
                   events, content_calls, image_calls, render_calls, returned>>

CreateDirectories == CreateDirectoriesWith(BOOLEAN)

\* the card of the current iteration (the local "card")
card == generated_cards[Len(generated_cards)]

\* how one call of generate_card_data ended
outcome_of(res) ==
    IF res.exc # "none" THEN res.exc ELSE IF res.none THEN "None" ELSE "Card"

\* lines 302-321: card type, progress, content, fallback, JSON file; the
\* endpoint's answer is RESPONSES[r] for one r of answers
GenerateDataWith(answers) ==
    /\ pc = "data"
    /\ events' = emit("data", current_step)
    /\ \E r \in answers :
        LET card_type == card_type_at(card_types, i)
            res == generate_card_data(theme, card_type, RESPONSES[r])
            crd == IF res.none THEN _create_fallback_card(theme, card_type, i)
                   ELSE res.card
        IN  /\ content_calls' = Append(content_calls,
                    [card_type |-> card_type, outcome |-> outcome_of(res)])
            /\ IF res.exc # "none"
               THEN /\ Propagate(res.exc)
                    /\ UNCHANGED <<generated_cards, current_step,
                                   card_filename_base, fs>>
               ELSE /\ generated_cards' = Append(generated_cards, crd)
                    /\ current_step' = current_step + 1
                    /\ IF crd.name.t # "str"
                       THEN /\ Propagate("AttributeError")
                            /\ UNCHANGED <<card_filename_base, fs>>
                       ELSE LET base == filename_base(crd.name.v, i)
                                json_path == json_path_of(cards_dir, base)
                            IN  /\ card_filename_base' = base
                                /\ IF ~can_create(dirs, json_path)
                                   THEN Propagate("FileNotFoundError") /\ fs' = fs
                                   ELSE /\ fs' = fs_write(fs, json_path,
                                                     FileContent("json", crd))
                                        /\ pc' = "art"
                                        /\ raised' = raised
    /\ UNCHANGED <<gui, direct, args, paths, catalog, card_types, total_steps, i, raw_image_path,
                   dirs, image_calls, render_calls, returned>>

GenerateData == GenerateDataWith(DOMAIN RESPONSES)

\* lines 323-332: progress, artwork, placeholder path; the image endpoint and
\* the disk behave as IMAGE_ENVS[e] for one e of envs
GenerateArtworkWith(envs) ==
    /\ pc = "art"
    /\ events' = emit("artwork", current_step)
    /\ \E e \in envs :
        LET r == generate_card_image(card.image_prompt,
                                     raw_path_of(cards_dir, card_filename_base),
                                     IMAGE_ENVS[e], fs, dirs)
        IN  /\ fs' = r.fs
            /\ dirs' = r.dirs
            /\ IF r.exc # "none"
               THEN /\ Propagate(r.exc)
                    /\ UNCHANGED <<image_calls, raw_image_path, current_step>>
               ELSE /\ image_calls' = Append(image_calls, r.ret)
                    /\ raw_image_path' = IF r.ret
                                         THEN raw_path_of(cards_dir, card_filename_base)
                                         ELSE _get_fallback_image_path
                    /\ current_step' = current_step + 1
                    /\ pc' = "render"
                    /\ raised' = raised
    /\ UNCHANGED <<gui, direct, args, paths, catalog, card_types, total_steps, generated_cards, i,
                   card_filename_base, content_calls, render_calls, returned>>

GenerateArtwork == GenerateArtworkWith(DOMAIN IMAGE_ENVS)

\* lines 334-340: progress, render; the boolean create_html_card returns is not
\* read; the renderer's surroundings behave as RENDER_ENVS[e] for one e of envs
CreatePlayableCardWith(envs) ==
    /\ pc = "render"
    /\ events' = emit("playable", current_step)
    /\ \E e \in envs :
        LET r == create_html_card(card, raw_image_path, template_path,
                                  playable_path_of(cards_dir, card_filename_base),
                                  i + 1, RENDER_ENVS[e], fs, dirs)
        IN  /\ fs' = r.fs
            /\ IF r.exc # "none"
               THEN /\ Propagate(r.exc)
                    /\ UNCHANGED <<render_calls, current_step, i>>
               ELSE /\ render_calls' = Append(render_calls, r.ret)
                    /\ current_step' = current_step + 1
                    /\ i' = i + 1
                    /\ pc' = loop_pc(i + 1)
                    /\ raised' = raised
    /\ UNCHANGED <<gui, direct, args, paths, catalog, card_types, total_steps, generated_cards,
                   card_filename_base, raw_image_path, dirs, content_calls,
                   image_calls, returned>>

CreatePlayableCard == CreatePlayableCardWith(DOMAIN RENDER_ENVS)

\* _generate_game_rules: the theme title, the template name, for each distinct
\* card_type value the title-cased line printed for it, and the count
_generate_game_rules(th, tname, cards) ==
    [title |-> str_title(th),
     template |-> tname,
     card_types |-> [v \in {cards[k].card_type.v : k \in DOMAIN cards} |-> str_title(v)],
     count |-> Len(cards)]

\* a variant that numbers the cards from 0
_generate_readme_from0(th, tname, cards) ==
    [title |-> str_title(th),
     template |-> tname,
     lines |-> [k \in DOMAIN cards |->
                   [number |-> k - 1, name |-> cards[k].name,
                    card_type |-> cards[k].card_type,
                    description |-> cards[k].description]]]

\* _generate_readme: the theme title, the template name, one numbered line per card
_generate_readme(th, tname, cards) ==
    [title |-> str_title(th),
     template |-> tname,
     lines |-> [k \in DOMAIN cards |->
                   [number |-> k, name |-> cards[k].name,
                    card_type |-> cards[k].card_type,
                    description |-> cards[k].description]]]

\* lines 342-345
WriteRules ==
    /\ pc = "rules"
    /\ IF \E k \in DOMAIN generated_cards : generated_cards[k].card_type.t # "str"
       THEN Propagate("AttributeError") /\ fs' = fs
       ELSE /\ fs' = fs_write(fs, rules_path_of(game_info_dir),
                       FileContent("rules",
                           _generate_game_rules(theme, template_name, generated_cards)))
            /\ pc' = "readme"
            /\ raised' = raised
    /\ UNCHANGED <<gui, direct, args, paths, catalog, locals, dirs, events, content_calls,
                   image_calls, render_calls, returned>>

\* lines 347-350
WriteReadme ==
    /\ pc = "readme"
    /\ fs' = fs_write(fs, readme_path_of(project_dir),
                FileContent("readme",
                    _generate_readme(theme, template_name, generated_cards)))
    /\ pc' = "zip"
    /\ UNCHANGED <<gui, direct, args, paths, catalog, locals, dirs, observed>>

\* os.path.relpath(path, pdir) of a file under pdir
relpath(path, pdir) == SubSeq(path, Len(pdir) + 2, Len(path))

\* a variant that does not descend into sub-directories
walk_files_top(files, pdir) ==
    {p \in DOMAIN files : IsPrefix(pdir \o <<"/">>, p) /\ path_dirname(p) = pdir}

\* os.walk(pdir): the regular files under the directory pdir
walk_files(files, pdir) == {p \in DOMAIN files : IsPrefix(pdir \o <<"/">>, p)}

\* the archive written by lines 354-359: member name -> content
zip_members(files, pdir) ==
    LET found == walk_files(files, pdir)
    IN  [a \in {relpath(p, pdir) : p \in found} |-> files[path_join(pdir, a)]]

\* lines 352-359
WriteZip ==
    /\ pc = "zip"
    /\ fs' = fs_write(fs, zip_path_of(project_dir),
                      FileContent("zip", zip_members(fs, project_dir)))
    /\ pc' = "final"
    /\ UNCHANGED <<gui, direct, args, paths, catalog, locals, dirs, observed>>

\* lines 361-364
Return ==
    /\ pc = "final"
    /\ events' = emit("done", total_steps)
    /\ returned' = zip_path_of(project_dir)
    /\ pc' = "done"
    /\ UNCHANGED <<gui, direct, args, paths, catalog, locals, disk, content_calls, image_calls,
                   render_calls, raised>>

Next ==
    \/ Call
    \/ ResolveTemplate
    \/ CreateDirectories
    \/ GenerateData
    \/ GenerateArtwork
    \/ CreatePlayableCard
    \/ WriteRules
    \/ WriteReadme
    \/ WriteZip
    \/ Return

Spec == Init /\ [][Next]_vars

(***************************************************************************)
(* Longer runs in a degraded environment: the text endpoint is either      *)
(* unreachable or answers a well-formed card, the image endpoint is        *)
(* unreachable, the template files are installed and the rasterizer works. *)
(***************************************************************************)
DECK_THEMES == << <<"f","a","n","t","a","s","y">>,
                  <<"F","A","N","T","A","S","Y">>,
                  <<"S","c","i","-","F","i">>,
                  <<"O","l","d"," ","W","e","s","t">> >>

DeckCall == CallWith(DECK_THEMES, 0..MaxDeckCards, <<"bright_swiss">>, {TRUE})
DeckResolveTemplate == ResolveTemplateWith({TemplateFiles})
DeckCreateDirectories == CreateDirectoriesWith({TRUE})
DeckGenerateData == GenerateDataWith({1, Len(RESPONSES)})
DeckGenerateArtwork == GenerateArtworkWith({2})
DeckCreatePlayableCard == CreatePlayableCardWith({1})

NextDegraded ==
    \/ DeckCall
    \/ DeckResolveTemplate
    \/ DeckCreateDirectories
    \/ DeckGenerateData
    \/ DeckGenerateArtwork
    \/ DeckCreatePlayableCard
    \/ WriteRules
    \/ WriteReadme
    \/ WriteZip
    \/ Return

SpecDegraded == Init /\ [][NextDegraded]_vars

(***************************************************************************)
(* create_card_game_zip called twice in sequence with the same theme and   *)
(* output directory: the second call finds the disk as the first left it.  *)
(***************************************************************************)
\* the most cards asked for in each of the two runs
MaxRerunCards == 1

\* the second call, made once the first has returned or raised; call.files
\* keeps the files the first run left
CallAgainWith(counts) ==
    /\ pc \in {"done", "raised"}
    /\ call = [fn |-> "none"]
    /\ call' = [fn |-> "create_card_game_zip", files |-> fs]
    /\ \E n \in counts : num_cards' = n
    /\ template_style' = requested_style
    /\ templates' = <<>>
    /\ template_path' = ""
    /\ template_name' = ""
    /\ card_types' = <<>>
    /\ total_steps' = 0
    /\ current_step' = 0
    /\ generated_cards' = <<>>
    /\ i' = 0
    /\ card_filename_base' = <<>>
    /\ raw_image_path' = <<>>
    /\ events' = <<>>
    /\ content_calls' = <<>>
    /\ image_calls' = <<>>
    /\ render_calls' = <<>>
    /\ raised' = "none"
    /\ returned' = <<>>
    /\ pc' = "resolve"
    /\ UNCHANGED <<gui, result, theme, progress_callback, requested_style, paths, disk>>

RerunCall == CallWith(<<THEMES[2]>>, 0..MaxRerunCards, <<"detailed">>, {FALSE})
RerunCallAgain == CallAgainWith(0..MaxRerunCards)
RerunResolveTemplate == ResolveTemplateWith({TemplateFiles})
RerunCreateDirectories == CreateDirectoriesWith({TRUE})
RerunGenerateData == GenerateDataWith({1, Len(RESPONSES)})
RerunGenerateArtwork == GenerateArtworkWith({1, 2})
RerunCreatePlayableCard == CreatePlayableCardWith({1, 3})

NextRerun ==
    \/ RerunCall
    \/ RerunCallAgain
    \/ RerunResolveTemplate
    \/ RerunCreateDirectories
    \/ RerunGenerateData
    \/ RerunGenerateArtwork
    \/ RerunCreatePlayableCard
    \/ WriteRules
    \/ WriteReadme
    \/ WriteZip
    \/ Return

SpecRerun == Init /\ [][NextRerun]_vars

(***************************************************************************)
(* create_card_game_zip called with card counts outside the range the GUI  *)
(* accepts, in the degraded environment: the text and image endpoints are  *)
(* unreachable, the template files are installed, the rasterizer works.    *)
(***************************************************************************)
RANGE_COUNTS == {0 - 1, 0, MAX_CARDS + 1}

RangeCall == CallWith(DECK_THEMES, RANGE_COUNTS, <<"bright_swiss">>, BOOLEAN)
RangeCallAgain == CallAgainWith(RANGE_COUNTS)
RangeGenerateData == GenerateDataWith({1})

NextRange ==
    \/ RangeCall
    \/ RangeCallAgain
    \/ DeckResolveTemplate
    \/ DeckCreateDirectories
    \/ RangeGenerateData
    \/ DeckGenerateArtwork
    \/ DeckCreatePlayableCard
    \/ WriteRules
    \/ WriteReadme
    \/ WriteZip
    \/ Return

SpecRange == Init /\ [][NextRange]_vars

(***************************************************************************)
(* Direct calls of _determine_rarity: the stats are a mapping of at most   *)
(* two stat names to integers of absolute value at most MaxStatValue.      *)
(***************************************************************************)
RARITY_STAT_NAMES == {"Power", "Cost"}

RarityInit ==
    /\ pc = "direct"
    /\ Blank
    /\ NoGui
    /\ result = [fn |-> "none"]
    /\ \E names \in SUBSET RARITY_STAT_NAMES :
          \E stats \in [names -> {PyInt(n) : n \in (-MaxStatValue)..MaxStatValue}] :
              call = [fn |-> "_determine_rarity", stats |-> PyDict(stats)]

ApplyRarity ==
    /\ pc = "direct"
    /\ call.fn = "_determine_rarity"
    /\ result' = [fn |-> "_determine_rarity", out |-> _determine_rarity(call.stats)]
    /\ pc' = "returned"
    /\ UNCHANGED <<gui, call, args, paths, catalog, locals, disk, observed>>

NextRarity == ApplyRarity

SpecRarity == RarityInit /\ [][NextRarity]_vars

(***************************************************************************)
(* Direct calls of generate_card_image: a text prompt, a destination with  *)
(* or without a directory part, a disk on which the destination or its     *)
(* directory may exist already, and what the endpoint and the disk do.     *)
(***************************************************************************)
IMAGE_CALL_PROMPTS == << PyStr(<<"a shield">>), PyStr(<<>>) >>

IMAGE_CALL_PATHS ==
    << <<"o","u","t","/","c","a","r","d","s","/","r","a","w","_","a","_","0",".","p","n","g">>,
       <<"r","a","w",".","p","n","g">> >>

IMAGE_CALL_ENVS ==
    << ImageEnv("ok", "ok"),
       ImageEnv("ok", "open_fails"),
       ImageEnv("ok", "write_fails"),
       ImageEnv("ConnectionError", "ok"),
       ImageEnv("Timeout", "ok"),
       ImageEnv("HTTPError", "ok") >>

ImageCallInit ==
    /\ pc = "direct"
    /\ Blank
    /\ NoGui
    /\ result = [fn |-> "none"]
    /\ \E p \in DOMAIN IMAGE_CALL_PROMPTS, o \in DOMAIN IMAGE_CALL_PATHS,
          e \in DOMAIN IMAGE_CALL_ENVS, file_exists \in BOOLEAN,
          dir_exists \in BOOLEAN :
          call = [fn |-> "generate_card_image",
                  image_prompt |-> IMAGE_CALL_PROMPTS[p],
                  output_path |-> IMAGE_CALL_PATHS[o],
                  env |-> IMAGE_CALL_ENVS[e],
                  files |-> IF file_exists
                            THEN fs_write(<<>>, IMAGE_CALL_PATHS[o],
                                          FileContent("artwork", "old"))
                            ELSE <<>>,
                  directories |-> IF dir_exists \/ file_exists
                                  THEN makedirs({}, path_dirname(IMAGE_CALL_PATHS[o]))
                                  ELSE {}]

ApplyImage ==
    /\ pc = "direct"
    /\ call.fn = "generate_card_image"
    /\ result' = [fn |-> "generate_card_image",
                  out |-> generate_card_image(call.image_prompt, call.output_path,
                                              call.env, call.files, call.directories)]
    /\ pc' = "returned"
    /\ UNCHANGED <<gui, call, args, paths, catalog, locals, disk, observed>>

NextImageCall == ApplyImage

SpecImageCall == ImageCallInit /\ [][NextImageCall]_vars

(***************************************************************************)
(* create_html_card called directly: the card, the paths, the template     *)
(* text and the environment are the inputs of one call.                    *)
(***************************************************************************)
RENDER_CALL_CARDS ==
    << Card(PyStr(<<"A","b"," ","1">>), PyStr(<<"A shield.">>), PyStr(<<"a shield">>),
            PyDict([Attack |-> PyInt(10), Defense |-> PyInt(11)]),
            PyStr(<<"h","e","r","o">>)),
       Card(PyStr(<<"{{CARD_RARITY}}">>), PyStr(<<"See ", "{{CARD_NUMBER}}">>),
            PyStr(<<"a gate">>), PyDict([Attack |-> PyInt(3)]),
            PyStr(<<"i","t","e","m">>)),
       Card(PyStr(<<"N","o","n","e">>), PyNone, PyStr(<<"a cloud">>), PyNone,
            PyStr(<<"s","p","e","l","l">>)),
       Card(PyStr(<<"L","i","s","t">>), PyStr(<<"A list.">>), PyStr(<<"a list">>),
            PyList(<<>>), PyStr(<<"i","t","e","m">>)),
       Card(PyStr(<<"T","e","x","t">>), PyStr(<<"A text.">>), PyStr(<<"a text">>),
            PyStr(<<"h","i","g","h">>), PyStr(<<"i","t","e","m">>)),
       Card(PyStr(<<"S","t","r">>), PyStr(<<"A string.">>), PyStr(<<"a string">>),
            PyDict([Attack |-> PyStr(<<"9">>)]), PyStr(<<"i","t","e","m">>)),
       Card(PyInt(7), PyStr(<<"A seven.">>), PyStr(<<"a seven">>),
            PyDict([Attack |-> PyInt(3)]), PyStr(<<"i","t","e","m">>)),
       Card(PyInt(7), PyNone, PyNone, PyStr(<<"n","o","n","e">>), PyNone) >>

\* an output path ending in .png, one without .png, one with .png in a
\* directory name
RENDER_CALL_PATHS ==
    << <<"o","u","t","/","c","a","r","d","s","/","a","b","_","1","_","0",".","p","n","g">>,
       <<"o","u","t","/","c","a","r","d","s","/","c","a","r","d",".","j","p","g">>,
       <<"o","u","t","/","v",".","p","n","g","/","c",".","p","n","g">> >>

RENDER_CALL_DIRECTORIES ==
    { <<"o","u","t">>,
      <<"o","u","t","/","c","a","r","d","s">>,
      <<"o","u","t","/","v",".","p","n","g">> }

RENDER_CALL_IMAGE == <<"o","u","t","/","c","a","r","d","s","/","r","a","w","_","a","b","_","1","_","0",".","p","n","g">>

RENDER_CALL_TEMPLATES ==
    << <<"<h1>", "{{CARD_NAME}}", "</h1>", "{{CARD_TYPE}}", "{{CARD_IMAGE_URL}}",
         "{{CARD_DESCRIPTION}}", "{{CARD_STATS}}", "{{CARD_RARITY}}", "#",
         "{{CARD_NUMBER}}", "{{FOOTER}}">>,
       <<"{{CARD_RARITY}}", "{{CARD_NAME}}", "{{CARD_NAME}}", "{{card_name}}">> >>

RENDER_CALL_NUMBERS == {1, 12}

RENDER_CALL_ENVS(text) ==
    << RenderEnv("ok", text, "ok", "exit_0"),
       RenderEnv("ok", text, "ok", "exit_1"),
       RenderEnv("ok", text, "ok", "not_found"),
       RenderEnv("ok", text, "open_fails", "exit_0"),
       RenderEnv("ok", text, "write_fails", "exit_0"),
       RenderEnv("missing", <<>>, "ok", "exit_0") >>

RenderCallInit ==
    /\ pc = "direct"
    /\ Blank
    /\ NoGui
    /\ result = [fn |-> "none"]
    /\ \E c \in DOMAIN RENDER_CALL_CARDS, o \in DOMAIN RENDER_CALL_PATHS,
          t \in DOMAIN RENDER_CALL_TEMPLATES, n \in RENDER_CALL_NUMBERS,
          e \in DOMAIN RENDER_CALL_ENVS(<<>>), image_exists \in BOOLEAN :
          call = [fn |-> "create_html_card",
                  card |-> RENDER_CALL_CARDS[c],
                  card_image_path |-> RENDER_CALL_IMAGE,
                  output_path |-> RENDER_CALL_PATHS[o],
                  card_number |-> n,
                  env |-> RENDER_CALL_ENVS(RENDER_CALL_TEMPLATES[t])[e],
                  files |-> IF image_exists
                            THEN fs_write(<<>>, RENDER_CALL_IMAGE,
                                          FileContent("artwork", "remote"))
                            ELSE <<>>,
                  directories |-> RENDER_CALL_DIRECTORIES]

ApplyRender ==
    /\ pc = "direct"
    /\ call.fn = "create_html_card"
    /\ result' = [fn |-> "create_html_card",
                  out |-> create_html_card(call.card, call.card_image_path,
                                           TEMPLATES[2][2].filename, call.output_path,
                                           call.card_number, call.env, call.files,
                                           call.directories)]
    /\ pc' = "returned"
    /\ UNCHANGED <<gui, call, args, paths, catalog, locals, disk, observed>>

NextRenderCall == ApplyRender

SpecRenderCall == RenderCallInit /\ [][NextRenderCall]_vars

(***************************************************************************)
(* The GUI (gui.py): the generate button, its command _generate_cards on   *)
(* the UI thread, the worker threads running _generation_thread, and the   *)
(* tasks they schedule on the UI thread with root.after.                   *)
(***************************************************************************)
\* the most worker threads started in one session
MaxThreads == 2

RECURSIVE str_lstrip(_)
str_lstrip(s) == IF s # <<>> /\ Head(s) = " " THEN str_lstrip(Tail(s)) ELSE s

RECURSIVE str_rstrip(_)
str_rstrip(s) ==
    IF s # <<>> /\ s[Len(s)] = " " THEN str_rstrip(SubSeq(s, 1, Len(s) - 1)) ELSE s

\* s.strip(), for the blank character
str_strip(s) == str_rstrip(str_lstrip(s))

\* the number written by a non-empty sequence of decimal digits
RECURSIVE digits_value(_)
digits_value(s) ==
    IF s = <<>> THEN 0
    ELSE 10 * digits_value(SubSeq(s, 1, Len(s) - 1))
             + (CHOOSE k \in DOMAIN DIGIT_CHARS : DIGIT_CHARS[k] = s[Len(s)]) - 1

IsDigits(s) ==
    s # <<>> /\ \A k \in DOMAIN s : \E d \in DOMAIN DIGIT_CHARS : DIGIT_CHARS[d] = s[k]

\* int(text) for a text of digits with an optional sign; ValueError otherwise
py_int(text) ==
    IF IsDigits(text) THEN Value(digits_value(text))
    ELSE IF text # <<>> /\ Head(text) = "-" /\ IsDigits(Tail(text))
    THEN Value(0 - digits_value(Tail(text)))
    ELSE Raise("ValueError")

\* a variant that accepts every number
in_range_any(n) == TRUE

\* line 306: MIN_CARDS <= num_cards <= MAX_CARDS
in_range(n) == MIN_CARDS <= n /\ n <= MAX_CARDS

\* _load_templates (lines 80-85)
_load_templates(existing) ==
    LET allowed(item) == item[1] \in {"bright_swiss", "detailed"}
    IN  SelectSeq(get_available_templates(existing), allowed)

\* _get_selected_template_id (lines 270-276) for the name shown in the combobox
_get_selected_template_id(tpls, selected_name) ==
    IF \E k \in DOMAIN tpls : tpls[k][2].name = selected_name
    THEN tpls[CHOOSE k \in DOMAIN tpls :
                  /\ tpls[k][2].name = selected_name
                  /\ \A j \in 1..(k - 1) : tpls[j][2].name # selected_name][1]
    ELSE "bright_swiss"

\* the names the read-only combobox lets the user select ("" when it is empty)
selectable_names(tpls) ==
    IF tpls = <<>> THEN {""} ELSE {tpls[k][2].name : k \in DOMAIN tpls}

GUI_THEMES == { <<>>, <<" ">>, <<"S","p","a","c","e"," ">> }
GUI_COUNTS == { <<"a">>, <<"-","1">>, <<"0">>, <<"1">>, <<"2","0">>, <<"2","1">> }
GUI_OUTPUT_DIRS == { <<>>, OUTPUT_DIR }

\* the exceptions create_card_game_zip is seen to raise
PIPELINE_EXCEPTIONS == {"KeyError", "IndexError", "PermissionError"}

\* CardGameGeneratorGUI.__init__ (lines 46-78): the window with its defaults
GuiInit ==
    /\ pc = "gui"
    /\ Blank
    /\ NoDirectCall
    /\ generate_button = "normal"
    /\ theme_var = <<>>
    /\ num_cards_var = <<"5">>
    /\ output_dir_var = OUTPUT_DIR
    /\ \E existing \in SUBSET TemplateFiles : gui_templates = _load_templates(existing)
    /\ threads = <<>>
    /\ after_queue = <<>>
    /\ messagebox = "none"

\* the user edits the three entries
EditForm ==
    /\ pc = "gui"
    /\ \E th \in GUI_THEMES, n \in GUI_COUNTS, d \in GUI_OUTPUT_DIRS :
          /\ theme_var' = th
          /\ num_cards_var' = n
          /\ output_dir_var' = d
    /\ UNCHANGED <<pc, args, paths, catalog, locals, disk, observed, direct,
                   generate_button, gui_templates, threads, after_queue, messagebox>>

\* the first failed check of _generate_cards (lines 299-319), or "none";
\* can_make tells whether os.makedirs(output_dir) succeeds
_generate_cards_error(th, count_text, output_dir, directories, can_make) ==
    IF str_strip(th) = <<>> THEN "Please enter a theme!"
    ELSE IF py_int(count_text).exc # "none" THEN "Please enter a valid number of cards!"
    ELSE IF ~in_range(py_int(count_text).val) THEN "Number of cards must be between"
    ELSE IF output_dir \notin directories /\ (output_dir = <<>> \/ ~can_make)
    THEN "Could not create output directory"
    ELSE "none"

\* the generate button is pressed: a disabled button does not call its command;
\* an enabled one calls _generate_cards (lines 297-334) on the UI thread
PressGenerate ==
    /\ pc = "gui"
    /\ generate_button = "normal"
    /\ Len(threads) < MaxThreads
    /\ \E can_make \in BOOLEAN, selected_name \in selectable_names(gui_templates) :
        LET error == _generate_cards_error(theme_var, num_cards_var, output_dir_var,
                                           dirs, can_make)
        IN  IF error # "none"
            THEN /\ messagebox' = "showerror"
                 /\ UNCHANGED <<generate_button, threads, dirs>>
            ELSE /\ dirs' = IF output_dir_var \in dirs THEN dirs
                            ELSE makedirs(dirs, output_dir_var)
                 /\ generate_button' = "disabled"
                 /\ threads' = Append(threads,
                        [at |-> "lookup",
                         theme |-> str_strip(theme_var),
                         output_dir |-> output_dir_var,
                         num_cards |-> py_int(num_cards_var).val,
                         template_id |-> _get_selected_template_id(gui_templates,
                                                                   selected_name),
                         ended |-> "no"])
                 /\ messagebox' = messagebox
    /\ UNCHANGED <<pc, args, paths, catalog, locals, fs, observed, direct, theme_var,
                   num_cards_var, output_dir_var, gui_templates, after_queue>>

\* line 345: the template name is looked up
ThreadLookup(w) ==
    /\ threads[w].at = "lookup"
    /\ threads' = [threads EXCEPT ![w].at =
                      IF items_has(gui_templates, threads[w].template_id)
                      THEN "pipeline" ELSE "except",
                   ![w].ended =
                      IF items_has(gui_templates, threads[w].template_id)
                      THEN "no" ELSE "KeyError"]
    /\ UNCHANGED after_queue

\* lines 352-358: create_card_game_zip returns or raises
ThreadPipeline(w) ==
    /\ threads[w].at = "pipeline"
    /\ \E outcome \in {"returned"} \cup PIPELINE_EXCEPTIONS :
          threads' = [threads EXCEPT ![w].at = IF outcome = "returned" THEN "success"
                                               ELSE "except",
                                     ![w].ended = outcome]
    /\ UNCHANGED after_queue

\* lines 360-370
ThreadSuccess(w) ==
    /\ threads[w].at = "success"
    /\ after_queue' = Append(after_queue, [task |-> "showinfo", by |-> w])
    /\ threads' = [threads EXCEPT ![w].at = "finally"]

\* lines 372-375
ThreadExcept(w) ==
    /\ threads[w].at = "except"
    /\ after_queue' = Append(after_queue, [task |-> "showerror", by |-> w])
    /\ threads' = [threads EXCEPT ![w].at = "finally"]

\* lines 377-378; the thread then ends and its arguments are gone
ThreadFinally(w) ==
    /\ threads[w].at = "finally"
    /\ after_queue' = Append(after_queue, [task |-> "enable", by |-> w])
    /\ threads' = [threads EXCEPT ![w] = [at |-> "exit"]]

\* one step of a worker thread running _generation_thread (lines 344-378)
ThreadStep ==
    /\ pc = "gui"
    /\ \E w \in DOMAIN threads :
          \/ ThreadLookup(w)
          \/ ThreadPipeline(w)
          \/ ThreadSuccess(w)
          \/ ThreadExcept(w)
          \/ ThreadFinally(w)
    /\ UNCHANGED <<pc, args, paths, catalog, locals, disk, observed, direct,
                   generate_button, theme_var, num_cards_var, output_dir_var,
                   gui_templates, messagebox>>

\* the UI thread runs the oldest task scheduled with root.after(0, ...)
MainloopRunTask ==
    /\ pc = "gui"
    /\ after_queue # <<>>
    /\ after_queue' = Tail(after_queue)
    /\ IF Head(after_queue).task = "enable"
       THEN generate_button' = "normal" /\ messagebox' = messagebox
       ELSE generate_button' = generate_button /\ messagebox' = Head(after_queue).task
    /\ UNCHANGED <<pc, args, paths, catalog, locals, disk, observed, direct, theme_var,
                   num_cards_var, output_dir_var, gui_templates, threads>>

NextGui ==
    \/ EditForm
    \/ PressGenerate
    \/ ThreadStep
    \/ MainloopRunTask

\* threads that are started run, and the main loop serves its tasks
SpecGui == GuiInit /\ [][NextGui]_vars /\ WF_vars(ThreadStep) /\ WF_vars(MainloopRunTask)

(***************************************************************************)
(* Properties of create_card_game_zip and its collaborators.               *)
(***************************************************************************)
\* C1: in a run with a progress sink, the k-th event received carries step
\* k - 1 and total 3 * num_cards; the events of a card are "data", "artwork",
\* "playable" in that order; a run of at least one card that returns has sent
\* exactly 3 * num_cards + 1 events, the last one (3 * num_cards, 3 * num_cards).
C1_ProgressEvents ==
    LET label_at(k) == <<"data", "artwork", "playable">>[((k - 1) % 3) + 1]
    IN  progress_callback =>
            /\ Len(events) <= 3 * num_cards + 1
            /\ \A k \in DOMAIN events :
                  /\ events[k].step = k - 1
                  /\ events[k].total = 3 * num_cards
                  /\ events[k].label =
                        IF k = 3 * num_cards + 1 THEN "done" ELSE label_at(k)
            /\ (pc = "done" /\ num_cards >= 1 => Len(events) = 3 * num_cards + 1)

\* a returned two-card run with a sink in which the content source failed once and
\* succeeded once, one artwork fetch failed and one render failed
C1_Witness ==
    /\ pc = "done"
    /\ progress_callback
    /\ num_cards = 2
    /\ content_calls[1].outcome = "None"
    /\ content_calls[2].outcome = "Card"
    /\ image_calls = <<FALSE, TRUE>>
    /\ render_calls = <<TRUE, FALSE>>
    /\ Len(events) = 7

\* card names with and without a trailing "_<digits>", and loop indices of one
\* and two digits: the file name bases of two different indices differ
IndexedNamesDiffer ==
    LET names == { <<"A","b">>, <<"A","b"," ","1">>, <<"a","b","_","1">>,
                   <<"a","b","_","1","_","0">>, <<"A","b"," ","1","0">> }
    IN  \A n1 \in names, n2 \in names, a \in 0..11, b \in 0..11 :
            a # b => filename_base(n1, a) # filename_base(n2, b)

\* C2: while the run has not failed, the JSON files on disk are exactly one file
\* cards/<slug(name)>_<i>.json per card generated so far, each holding its own
\* card; the files of two different indices have different names (also for equal
\* names and for names ending in "_<digits>"); every successful render has its
\* own image file; a run that returns has written exactly num_cards JSON files.
C2_CardFiles ==
    LET slug(name) == str_lower(str_replace(name, <<" ">>, <<"_">>))
        json_names == [k \in DOMAIN generated_cards |->
                          cards_dir \o <<"/">> \o slug(generated_cards[k].name.v)
                              \o <<"_">> \o int_str(k - 1) \o <<".","j","s","o","n">>]
        json_name(k) == json_names[k]
        json_files == {p \in DOMAIN fs : fs[p].kind = "json"}
        images == {p \in DOMAIN fs : fs[p].kind = "png"}
    IN  /\ IndexedNamesDiffer
        /\ pc # "raised" =>
            /\ json_files = {json_name(k) : k \in DOMAIN generated_cards}
            /\ Cardinality(json_files) = Len(generated_cards)
            /\ \A k \in DOMAIN generated_cards :
                  fs[json_name(k)] = FileContent("json", generated_cards[k])
            /\ Cardinality(images)
                  = Cardinality({k \in DOMAIN render_calls : render_calls[k]})
            /\ (pc = "done" => Cardinality(json_files) = num_cards)

\* a returned run whose two cards have the same name, which ends in a number
C2_Witness ==
    /\ pc = "done"
    /\ num_cards = 2
    /\ generated_cards[1].name = generated_cards[2].name
    /\ generated_cards[1].name = PyStr(<<"A","b"," ","1">>)
    /\ render_calls = <<TRUE, TRUE>>

\* C3: every call of generate_card_data ends by returning a Card or None; no
\* exception leaves it.
C3_ContentSourceNeverRaises ==
    \A k \in DOMAIN content_calls : content_calls[k].outcome \in {"Card", "None"}

\* C4: whenever create_html_card has returned, no intermediate document
\* <output>_temp.html is on disk.
C4_NoTempDocumentLeft ==
    \A p \in DOMAIN fs : fs[p].kind # "html"

\* C5: the step that renders card i always moves on to card i + 1 (or to the rules
\* after the last card) without raising, leaves the JSON file of card i and the
\* list of cards unchanged, whatever create_html_card returned; and a run that
\* returns has processed num_cards cards, lists each of them in the README and
\* counts them in the rules, has written the archive and returns its path.
C5_RenderFailureNotFatal ==
    [][ /\ pc = "render" =>
            /\ pc' = (IF i + 1 < num_cards THEN "data" ELSE "rules")
            /\ i' = i + 1
            /\ raised' = "none"
            /\ Len(render_calls') = Len(render_calls) + 1
            /\ generated_cards' = generated_cards
            /\ LET json_path == json_path_of(cards_dir, card_filename_base)
               IN  /\ json_path \in DOMAIN fs'
                   /\ fs'[json_path] = fs[json_path]
                   /\ fs[json_path] = FileContent("json", card)
        /\ pc' = "done" =>
            LET zip_path == project_dir' \o <<".","z","i","p">>
                readme == fs'[project_dir' \o <<"/","R","E","A","D","M","E",".","m","d">>]
                rules == fs'[game_info_dir'
                    \o <<"/","g","a","m","e","_","r","u","l","e","s",".","t","x","t">>]
            IN  /\ Len(generated_cards') = num_cards'
                /\ Len(render_calls') = num_cards'
                /\ Len(readme.data.lines) = num_cards'
                /\ \A k \in 1..num_cards' :
                      /\ readme.data.lines[k].number = k
                      /\ readme.data.lines[k].name = generated_cards'[k].name
                /\ rules.data.count = num_cards'
                /\ zip_path \in DOMAIN fs'
                /\ fs'[zip_path].kind = "zip"
                /\ returned' = zip_path
      ]_vars

\* a returned two-card run whose first render failed
C5_Witness ==
    /\ pc = "done"
    /\ num_cards = 2
    /\ render_calls = <<FALSE, TRUE>>
    /\ Len(generated_cards) = 2
    /\ returned = zip_path_of(project_dir)

\* C6: whenever the artwork fetch of a card failed, the raw artwork file
\* cards/raw_<slug(name)>_<i>.png of that card is on disk and holds the bundled
\* placeholder image; and the archive of a returned two-card run in which every
\* remote call failed holds two JSON files and two raw placeholder images.
C6_PlaceholderArtworkStored ==
    LET raw_path(k) == raw_path_of(cards_dir,
                           filename_base(generated_cards[k].name.v, k - 1))
        archive == fs[zip_path_of(project_dir)].data
        members(kind) == {a \in DOMAIN archive : archive[a].kind = kind}
    IN  /\ \A k \in DOMAIN image_calls :
              ~image_calls[k] =>
                  /\ raw_path(k) \in DOMAIN fs
                  /\ fs[raw_path(k)] = FileContent("artwork", "placeholder")
        /\ ( /\ pc = "done"
             /\ num_cards = 2
             /\ \A k \in DOMAIN content_calls : content_calls[k].outcome = "None"
             /\ image_calls = <<FALSE, FALSE>> )
           => /\ Cardinality(members("json")) = 2
              /\ Cardinality(members("artwork")) = 2

\* the fallback card for i = 0 (stats 1, 1, 2) and i = 3 (stats 4, 3, 5), and
\* two calls with the same arguments
FallbackExamples ==
    LET th == <<"F","a","n","t","a","s","y">>
        creature == <<"c","r","e","a","t","u","r","e">>
        first == _create_fallback_card(th, creature, 0)
        fourth == _create_fallback_card(th, creature, 3)
    IN  /\ first.name = PyStr(<<"G","e","n","e","r","i","c"," ","C","r","e","a","t",
                                "u","r","e"," ","1">>)
        /\ first.stats = PyDict([Power |-> PyInt(1), Cost |-> PyInt(1),
                                 Health |-> PyInt(2)])
        /\ fourth.stats = PyDict([Power |-> PyInt(4), Cost |-> PyInt(3),
                                  Health |-> PyInt(5)])
        /\ first.card_type = PyStr(creature)
        /\ _create_fallback_card(th, creature, 3) = fourth

\* C7: the k-th card of a run (loop index i = k - 1) is the fallback card exactly
\* when the k-th call of the content source returned None; the fallback card is
\* named "Generic <Archetype title-cased> <i+1>", has the archetype as card_type
\* and the stats Power i+1, Cost floor((i+1)/2)+1, Health i+2 (1, 1, 2 for i = 0
\* and 4, 3, 5 for i = 3); a card the content source returned is used as returned.
C7_FallbackCard ==
    LET fallback_name(k) ==
            PyStr(<<"G","e","n","e","r","i","c"," ">>
                  \o str_title(content_calls[k].card_type) \o <<" ">> \o int_str(k))
        fallback_stats(k) ==
            PyDict([Power |-> PyInt(k), Cost |-> PyInt((k \div 2) + 1),
                    Health |-> PyInt(k + 1)])
    IN  /\ FallbackExamples
        /\ Len(generated_cards) <= Len(content_calls)
        /\ \A k \in DOMAIN generated_cards :
              IF content_calls[k].outcome = "None"
              THEN /\ generated_cards[k].name = fallback_name(k)
                   /\ generated_cards[k].card_type = PyStr(content_calls[k].card_type)
                   /\ generated_cards[k].stats = fallback_stats(k)
              ELSE /\ content_calls[k].outcome = "Card"
                   /\ generated_cards[k] = RemoteCardA.v

\* a run whose first card came from the content source and whose fourth card is
\* the fallback card with the stats 4, 3, 5
C7_Witness ==
    /\ Len(generated_cards) >= 4
    /\ content_calls[1].outcome = "Card"
    /\ content_calls[4].outcome = "None"
    /\ generated_cards[4].stats = PyDict([Power |-> PyInt(4), Cost |-> PyInt(3),
                                          Health |-> PyInt(5)])
    /\ generated_cards[4].name.v[Len(generated_cards[4].name.v)] = "4"

\* C7 with the stats it states for i = 3: every fallback card has the stats
\* Power i+1, Cost floor((i+1)/2)+1, Health i+2, and the fallback card of i = 0
\* has the stats 1, 1, 2 and that of i = 3 the stats 4, 2, 5.
C7_FallbackCardAsStated ==
    \A k \in DOMAIN generated_cards :
        content_calls[k].outcome = "None" =>
            /\ generated_cards[k].stats
                  = PyDict([Power |-> PyInt(k), Cost |-> PyInt((k \div 2) + 1),
                            Health |-> PyInt(k + 1)])
            /\ k = 1 => generated_cards[k].stats
                  = PyDict([Power |-> PyInt(1), Cost |-> PyInt(1), Health |-> PyInt(2)])
            /\ k = 4 => generated_cards[k].stats
                  = PyDict([Power |-> PyInt(4), Cost |-> PyInt(2), Health |-> PyInt(5)])

\* C8: the archetype of the k-th call of the content source (loop index
\* i = k - 1) is L[i mod len(L)], L being the list of the table key that equals
\* the theme up to letter case, or the default list when there is none; for the
\* theme "fantasy" in any letter case the first seven archetypes are creature,
\* spell, artifact, enchantment, hero, creature, spell.
C8_ArchetypeCycle ==
    LET same_ignoring_case(a, b) ==
            /\ Len(a) = Len(b)
            /\ \A j \in 1..Len(a) : char_upper(a[j]) = char_upper(b[j])
        hits == {k \in DOMAIN THEME_CARD_TYPES :
                    same_ignoring_case(theme, THEME_CARD_TYPES[k][1])}
        L == IF hits = {}
             THEN << <<"c","h","a","r","a","c","t","e","r">>, <<"a","c","t","i","o","n">>,
                     <<"i","t","e","m">>, <<"l","o","c","a","t","i","o","n">>,
                     <<"e","v","e","n","t">> >>
             ELSE THEME_CARD_TYPES[CHOOSE k \in hits : TRUE][2]
    IN  /\ \A k \in DOMAIN content_calls :
              content_calls[k].card_type = L[((k - 1) % Len(L)) + 1]
        /\ ( /\ same_ignoring_case(theme, <<"f","a","n","t","a","s","y">>)
             /\ Len(content_calls) = 7 )
           => [k \in 1..7 |-> content_calls[k].card_type]
                = << <<"c","r","e","a","t","u","r","e">>, <<"s","p","e","l","l">>,
                     <<"a","r","t","i","f","a","c","t">>,
                     <<"e","n","c","h","a","n","t","m","e","n","t">>,
                     <<"h","e","r","o">>, <<"c","r","e","a","t","u","r","e">>,
                     <<"s","p","e","l","l">> >>

\* a returned run of seven cards for the theme "FANTASY"
C8_Witness ==
    /\ pc = "done"
    /\ theme = <<"F","A","N","T","A","S","Y">>
    /\ num_cards = 7
    /\ Len(content_calls) = 7
    /\ content_calls[6].card_type = <<"c","r","e","a","t","u","r","e">>

C10_EmptyCatalogConfigurationError ==
    (pc \notin {"idle", "resolve"} /\ templates = <<>>) =>
        /\ pc = "raised"
        /\ raised = "ValueError"
        /\ events = <<>>
        /\ content_calls = <<>>
        /\ fs = <<>>
        /\ dirs = {}

\* C11: the rarity returned for a mapping of stats is decided by the sum S of its
\* values alone: Legendary exactly when S > 20, Epic exactly when 15 < S <= 20,
\* Rare exactly when 10 < S <= 15 and Common exactly when S <= 10 (the empty
\* mapping and negative sums included); no exception is raised.
C11_RarityBySum ==
    result.fn = "_determine_rarity" =>
        LET stats == call.stats.v
            value(name) == IF name \in DOMAIN stats THEN stats[name].v ELSE 0
            S == value("Power") + value("Cost")
            rarity == result.out.val
        IN  /\ result.out.exc = "none"
            /\ rarity \in {"Legendary", "Epic", "Rare", "Common"}
            /\ rarity = "Legendary" <=> S > 20
            /\ rarity = "Epic" <=> (15 < S /\ S <= 20)
            /\ rarity = "Rare" <=> (10 < S /\ S <= 15)
            /\ rarity = "Common" <=> S <= 10
            /\ S = 10 => rarity = "Common"
            /\ S = 15 => rarity = "Rare"
            /\ S = 20 => rarity = "Epic"

\* two stats that sum to the boundary 20, classified Epic
C11_Witness ==
    /\ result.fn = "_determine_rarity"
    /\ DOMAIN call.stats.v = {"Power", "Cost"}
    /\ call.stats.v["Power"].v = 9
    /\ call.stats.v["Cost"].v = 11
    /\ result.out = Value("Epic")

\* C12: a run aborts only before its first card: once the template is resolved
\* and the directories are created no exception leaves create_card_game_zip,
\* and a run that returns has processed num_cards cards.
C12_OnlySetupFailuresAbort ==
    /\ pc = "raised" => content_calls = <<>>
    /\ pc = "done" => Len(render_calls) = num_cards

\* C13: when a run aborts while card i is in progress, the error delivered to
\* the caller carries the index i.
C13_AbortReportsCardIndex ==
    (pc = "raised" /\ Len(content_calls) > 0) => abort_report.card_index = i

\* C16: a run asked for a template id that is not registered fails with
\* ValueError in template resolution.
C16_UnrecognizedStyleRaisesValueError ==
    ( /\ pc \notin {"idle", "resolve"}
      /\ \A k \in DOMAIN TEMPLATES : TEMPLATES[k][1] # requested_style )
    => (pc = "raised" /\ raised = "ValueError")

\* C19: a run that failed in template resolution has already created cards/ and
\* game_info/, and a run that failed creating the directories has not read the
\* catalog.
C19_DirectoriesBeforeTemplate ==
    /\ (pc = "raised" /\ raised = "KeyError") =>
            (cards_dir \in dirs /\ game_info_dir \in dirs)
    /\ (pc = "raised" /\ raised = "PermissionError") =>
            (templates = <<>> /\ template_path = "" /\ template_name = "")

\* C20: once README.md is written, the card list holds num_cards cards, the k-th
\* being the card of the k-th content call (the fallback card of its archetype or
\* the card returned), whatever its artwork and render did; README.md lists them
\* numbered 1..num_cards in that order with name, type and description; and
\* game_rules.txt has one line for each distinct card_type value, the value
\* title-cased, and states the count num_cards.
C20_SummaryDocuments ==
    pc \in {"zip", "final", "done"} =>
        LET readme == fs[project_dir \o <<"/","R","E","A","D","M","E",".","m","d">>].data
            rules == fs[game_info_dir
                \o <<"/","g","a","m","e","_","r","u","l","e","s",".","t","x","t">>].data
            types == {generated_cards[k].card_type.v : k \in DOMAIN generated_cards}
        IN  /\ Len(generated_cards) = num_cards
            /\ Len(content_calls) = num_cards
            /\ \A k \in DOMAIN generated_cards :
                  IF content_calls[k].outcome = "None"
                  THEN generated_cards[k].card_type = PyStr(content_calls[k].card_type)
                  ELSE generated_cards[k] = RemoteCardA.v
            /\ DOMAIN readme.lines = 1..num_cards
            /\ \A k \in 1..num_cards :
                  /\ readme.lines[k].number = k
                  /\ readme.lines[k].name = generated_cards[k].name
                  /\ readme.lines[k].card_type = generated_cards[k].card_type
                  /\ readme.lines[k].description = generated_cards[k].description
            /\ DOMAIN rules.card_types = types
            /\ \A v \in types : rules.card_types[v] = str_title(v)
            /\ rules.count = num_cards

\* a returned two-card run: a fallback card whose artwork and render failed, then
\* a card from the content source; both are listed
C20_Witness ==
    /\ pc = "done"
    /\ num_cards = 2
    /\ content_calls[1].outcome = "None"
    /\ content_calls[2].outcome = "Card"
    /\ image_calls[1] = FALSE
    /\ render_calls[1] = FALSE
    /\ Len(fs[readme_path_of(project_dir)].data.lines) = 2
    /\ Cardinality(DOMAIN fs[rules_path_of(game_info_dir)].data.card_types) = 2

\* C15: a call of generate_card_image with a text prompt issues exactly one
\* request and raises nothing, whatever the endpoint and the disk do; it returns
\* True only when the destination holds the whole response body, and exactly
\* when the request succeeded and the file could be created and written; when
\* the request failed (network failure or error status) it returns False and
\* the destination and the directories are as they were.
C15_ArtworkFetch ==
    result.fn = "generate_card_image" =>
        LET out == result.out
            dest == call.output_path
            net_ok == call.env.net = "ok"
            disk_ok == call.env.disk = "ok" /\ path_dirname(dest) # <<>>
        IN  /\ out.requests = 1
            /\ out.exc = "none"
            /\ out.ret \in BOOLEAN
            /\ out.ret <=> (net_ok /\ disk_ok)
            /\ out.ret => /\ dest \in DOMAIN out.fs
                          /\ out.fs[dest] = FileContent("artwork", "body")
            /\ ~net_ok => /\ ~out.ret
                           /\ out.fs = call.files
                           /\ out.dirs = call.directories

\* a call whose request timed out while an older file was at the destination:
\* False is returned and the older file is still there
C15_Witness ==
    /\ result.fn = "generate_card_image"
    /\ call.env.net = "Timeout"
    /\ call.output_path \in DOMAIN call.files
    /\ result.out.ret = FALSE
    /\ result.out.fs[call.output_path] = FileContent("artwork", "old")


\* whether stats is a mapping whose values are all integers
IsMappingOfIntegers(stats) ==
    stats.t = "dict" /\ \A k \in DOMAIN stats.v : stats.v[k].t = "int"

\* whether the call reaches the rasterizer with the intermediate document
\* written, and the rasterizer exits with status 0
RasterizedWithStatus0 ==
    /\ call.env.template = "ok"
    /\ (py_truthy(call.card.stats) => IsMappingOfIntegers(call.card.stats))
    /\ call.card.name.t = "str"
    /\ call.card.card_type.t = "str"
    /\ (py_truthy(call.card.description) => call.card.description.t = "str")
    /\ call.env.temp = "ok"
    /\ path_dirname(temp_html_path_of(call.output_path)) \in call.directories
    /\ call.env.rasterizer = "exit_0"

SubstitutionReached ==
    /\ result.fn = "create_html_card"
    /\ call.env.template = "ok"
    /\ create_html_card_prepare_exc(call.card) = "none"

\* text with every element that is one of the placeholders of items replaced
\* by that placeholder's value, and every other element kept
RECURSIVE substituted_at_once(_, _)
substituted_at_once(text, items) ==
    IF text = <<>> THEN <<>>
    ELSE (IF \E k \in DOMAIN items : items[k][1] = Head(text)
          THEN items[CHOOSE k \in DOMAIN items : items[k][1] = Head(text)][2]
          ELSE <<Head(text)>>)
         \o substituted_at_once(Tail(text), items)

\* C17: each of the seven tokens of the template is replaced by its own value
\* verbatim, independently of the other values: text inserted for one token is
\* never rewritten by the substitution of another token, and any other token
\* of the template is left untouched.
C17_TokensReplacedIndependently ==
    SubstitutionReached =>
        html_document(call.env.text, call.card, call.card_image_path,
                      call.card_number, call.files)
            = substituted_at_once(call.env.text,
                  replacements(call.card,
                               _encode_image_to_base64(call.card_image_path, call.files),
                               call.card_number))

\* C18: the intermediate document path lies in the directory of output_path
\* and is never equal to output_path, so that a call that returns True leaves
\* the rendered image at output_path; this holds also when output_path does
\* not end in '.png' or has '.png' in a directory name.
C18_TempPathBesideOutput ==
    result.fn = "create_html_card" =>
        /\ temp_html_path_of(call.output_path) # call.output_path
        /\ path_dirname(temp_html_path_of(call.output_path))
               = path_dirname(call.output_path)
        /\ result.out.ret = TRUE =>
               /\ call.output_path \in DOMAIN result.out.fs
               /\ result.out.fs[call.output_path].kind = "png"


\* whether the step writes the file at path (creates it or changes its content)
Writes(path) ==
    /\ path \in DOMAIN fs'
    /\ (path \in DOMAIN fs => fs'[path] # fs[path])

\* C21: the closing steps are strictly ordered: game_rules.txt and README.md
\* are written only after the last card's render step; the archive is written
\* only once both documents exist, holds every file then present under the
\* project directory under its path relative to the project root, and never
\* holds itself; the final event (3N, 3N) is emitted only after the archive is
\* written, in the step that returns the archive path.
C21_ClosingStepsOrdered ==
    [][ LET rules_path == game_info_dir \o <<"/","g","a","m","e","_","r","u","l","e","s",".","t","x","t">>
            readme_path == project_dir \o <<"/","R","E","A","D","M","E",".","m","d">>
            zip_path == project_dir \o <<".","z","i","p">>
            under == {p \in DOMAIN fs : IsPrefix(project_dir \o <<"/">>, p)}
            rendered_all == /\ Len(render_calls) = num_cards
                            /\ Len(generated_cards) = num_cards
                            /\ i = num_cards
        IN  /\ pc # "idle" /\ Writes(rules_path) => pc = "rules" /\ rendered_all
            /\ pc # "idle" /\ Writes(readme_path) =>
                   /\ pc = "readme" /\ rendered_all
                   /\ rules_path \in DOMAIN fs
            /\ pc \in {"rules", "readme", "zip", "final"} => rendered_all
            /\ pc # "idle" /\ Writes(zip_path) =>
                   /\ pc = "zip"
                   /\ rules_path \in under /\ readme_path \in under
                   /\ zip_path \notin under
                   /\ fs'[zip_path].kind = "zip"
                   /\ DOMAIN fs'[zip_path].data
                          = {SubSeq(p, Len(project_dir) + 2, Len(p)) : p \in under}
                   /\ \A p \in under :
                          fs'[zip_path].data[SubSeq(p, Len(project_dir) + 2, Len(p))] = fs[p]
                   /\ \A p \in DOMAIN fs : fs'[p] = fs[p]
            /\ pc # "idle" /\ events' # events /\ events'[Len(events')].label = "done" =>
                   /\ pc = "final" /\ pc' = "done"
                   /\ zip_path \in DOMAIN fs /\ fs[zip_path].kind = "zip"
                   /\ fs' = fs
                   /\ events' = Append(events, [label |-> "done", step |-> 3 * num_cards,
                                                total |-> 3 * num_cards])
                   /\ returned' = zip_path
            /\ pc' = "done" =>
                   /\ pc = "final"
                   /\ returned' = zip_path
                   /\ progress_callback => Len(events') = Len(events) + 1
      ]_vars

\* a two-card run has returned the path of an archive that holds the two
\* documents and the cards' files, after the final event
C21_Witness ==
    /\ pc = "done"
    /\ num_cards = 2
    /\ progress_callback
    /\ events[Len(events)] = [label |-> "done", step |-> 6, total |-> 6]
    /\ returned = zip_path_of(project_dir)
    /\ returned \in DOMAIN fs
    /\ Cardinality(DOMAIN fs[returned].data) >= 6
    /\ <<"R","E","A","D","M","E",".","m","d">> \in DOMAIN fs[returned].data


\* C22: at every progress event the number of card JSON files written by the
\* run is fixed by the event's step s: s \div 3 files at a "generating data"
\* event (s = 3i), and i + 1 files at the events s = 3i + 1 and s = 3i + 2: the
\* JSON file of card i is written after its content is obtained and before its
\* artwork is requested, and no JSON file is changed or removed afterwards.
C22_JsonFilesPerEvent ==
    [][ LET json_files == {p \in DOMAIN fs : fs[p].kind = "json"}
            json_files_after == {p \in DOMAIN fs' : fs'[p].kind = "json"}
            event == events'[Len(events')]
        IN  /\ Len(events') = Len(events) + 1 =>
                  /\ event.label = "data" =>
                        /\ event.step = 3 * i
                        /\ Cardinality(json_files) = event.step \div 3
                  /\ event.label = "artwork" =>
                        /\ event.step = 3 * i + 1
                        /\ Cardinality(json_files) = i + 1
                  /\ event.label = "playable" =>
                        /\ event.step = 3 * i + 2
                        /\ Cardinality(json_files) = i + 1
                  /\ event.label = "done" =>
                        Cardinality(json_files) = event.step \div 3
            /\ Len(content_calls') = Len(content_calls) + 1 =>
                  /\ Cardinality(json_files) = i
                  /\ pc' = "art" => Cardinality(json_files_after) = i + 1
            /\ Len(image_calls') = Len(image_calls) + 1 =>
                  /\ Cardinality(json_files) = i + 1
                  /\ \E p \in json_files : fs[p].data = generated_cards[i + 1]
            /\ \A p \in json_files : p \in DOMAIN fs' /\ fs'[p] = fs[p]
      ]_vars

\* the third step of the second card is reached with a sink: five events were
\* received and two JSON files are on disk
C22_Witness ==
    /\ pc = "render"
    /\ progress_callback
    /\ i = 1
    /\ Len(events) = 5
    /\ events[5].label = "artwork"
    /\ Cardinality({p \in DOMAIN fs : fs[p].kind = "json"}) = 2


\* the worker threads that have not ended
LiveThreads == {w \in DOMAIN threads : threads[w].at # "exit"}

\* C23: in the GUI at most one pipeline invocation runs at any time: a worker
\* is started only by a press of the enabled button, after the inputs were
\* validated (theme not blank, count in 1..20, output directory present), and
\* with the button disabled before the worker starts; the button is enabled
\* again only by a task that a worker scheduled after its run had ended; and
\* whenever the button is disabled it is eventually enabled again, whether the
\* worker's run returned or raised (an unknown template id included).
C23_SingleInvocation ==
    /\ [](pc = "gui" =>
            /\ Cardinality(LiveThreads) <= 1
            /\ (generate_button = "normal" => LiveThreads = {})
            /\ (LiveThreads # {} => generate_button = "disabled"))
    /\ [][ pc = "gui" =>
            /\ threads' # threads /\ Len(threads') > Len(threads) =>
                  /\ generate_button = "normal"
                  /\ generate_button' = "disabled"
                  /\ Len(threads') = Len(threads) + 1
                  /\ threads'[Len(threads')].theme # <<>>
                  /\ threads'[Len(threads')].theme = str_strip(theme_var)
                  /\ threads'[Len(threads')].num_cards \in 1..20
                  /\ threads'[Len(threads')].output_dir \in dirs'
            /\ generate_button = "disabled" /\ generate_button' = "normal" =>
                  /\ after_queue # <<>>
                  /\ Head(after_queue).task = "enable"
                  /\ threads[Head(after_queue).by].at = "exit"
         ]_vars
    /\ (generate_button = "disabled") ~> (generate_button = "normal")

\* a second worker runs the pipeline with the button disabled, after the first
\* worker ended and the button was enabled again
C23_Witness ==
    /\ pc = "gui"
    /\ Len(threads) = 2
    /\ threads[1].at = "exit"
    /\ threads[2].at = "pipeline"
    /\ generate_button = "disabled"
    /\ after_queue = <<>>


\* C24: a run never deletes or clears files already present under the project
\* directory: no step removes a file, except the intermediate document the
\* render step itself writes; when create_card_game_zip has run twice with the
\* same theme and output directory, every file the first run left whose name
\* the second run did not reuse is still there, unchanged, and is a member of
\* the second archive, which can so hold more than num_cards JSON files.
C24_RerunKeepsFiles ==
    /\ [][ \A p \in DOMAIN fs :
              \/ p \in DOMAIN fs'
              \/ /\ pc = "render"
                 /\ p = temp_html_path_of(playable_path_of(cards_dir, card_filename_base))
         ]_vars
    /\ [](call.fn = "create_card_game_zip" /\ pc = "done" =>
            LET reused == {cards_dir \o <<"/">> \o
                               str_lower(str_replace(generated_cards[k].name.v,
                                                     <<" ">>, <<"_">>))
                               \o <<"_">> \o int_str(k - 1) \o ext :
                               k \in DOMAIN generated_cards,
                               ext \in { <<".","j","s","o","n">>, <<".","p","n","g">>,
                                         <<"_","t","e","m","p",".","h","t","m","l">> }}
                          \cup {cards_dir \o <<"/","r","a","w","_">> \o
                               str_lower(str_replace(generated_cards[k].name.v,
                                                     <<" ">>, <<"_">>))
                               \o <<"_">> \o int_str(k - 1) \o <<".","p","n","g">> :
                               k \in DOMAIN generated_cards}
                          \cup {project_dir \o <<"/","R","E","A","D","M","E",".","m","d">>,
                                game_info_dir \o <<"/","g","a","m","e","_","r","u","l","e","s",".","t","x","t">>,
                                project_dir \o <<".","z","i","p">>}
                archive == fs[project_dir \o <<".","z","i","p">>].data
            IN  \A p \in DOMAIN call.files :
                    p \notin reused =>
                        /\ p \in DOMAIN fs
                        /\ fs[p] = call.files[p]
                        /\ SubSeq(p, Len(project_dir) + 2, Len(p)) \in DOMAIN archive
                        /\ archive[SubSeq(p, Len(project_dir) + 2, Len(p))] = call.files[p])

\* the second run asked for one card and returned; its archive holds the JSON
\* file of its own card and the one the first run left under another name
C24_Witness ==
    /\ call.fn = "create_card_game_zip"
    /\ pc = "done"
    /\ num_cards = 1
    /\ LET archive == fs[zip_path_of(project_dir)].data
       IN  Cardinality({a \in DOMAIN archive : archive[a].kind = "json"}) = 2
    /\ \E p \in DOMAIN call.files :
          /\ call.files[p].kind = "json"
          /\ call.files[p].data # generated_cards[1]
          /\ p \in DOMAIN fs


\* C25: create_card_game_zip does not enforce the range 1..20 itself: no count
\* makes it raise; for a count <= 0 it processes no card, calls neither the
\* content source, the artwork source nor the renderer, and still writes the
\* rules, the README and the archive; for the count 0 a sink receives exactly
\* one event, (0, 0); for a count above 20 it processes all the cards.
C25_RangeNotEnforced ==
    LET rules_path == game_info_dir \o <<"/","g","a","m","e","_","r","u","l","e","s",".","t","x","t">>
        readme_path == project_dir \o <<"/","R","E","A","D","M","E",".","m","d">>
        zip_path == project_dir \o <<".","z","i","p">>
    IN  /\ pc # "raised"
        /\ num_cards <= 0 =>
              /\ generated_cards = <<>>
              /\ content_calls = <<>> /\ image_calls = <<>> /\ render_calls = <<>>
              /\ pc \notin {"data", "art", "render"}
              /\ pc = "done" =>
                    /\ {rules_path, readme_path, zip_path} \subseteq DOMAIN fs
                    /\ fs[rules_path].data.count = 0
                    /\ fs[readme_path].data.lines = <<>>
                    /\ returned = zip_path
              /\ num_cards = 0 /\ progress_callback =>
                    events = IF pc = "done"
                             THEN <<[label |-> "done", step |-> 0, total |-> 0]>>
                             ELSE <<>>
        /\ num_cards > 20 /\ pc = "done" =>
              /\ Len(generated_cards) = num_cards
              /\ Len(content_calls) = num_cards
              /\ Len(image_calls) = num_cards
              /\ Len(render_calls) = num_cards
              /\ fs[rules_path].data.count = num_cards
              /\ Len(fs[readme_path].data.lines) = num_cards
              /\ progress_callback => Len(events) = 3 * num_cards + 1

\* a run of 21 cards has returned, after a run of no card on the same
\* directory had written its documents and reported (0, 0) to its sink
C25_Witness ==
    /\ pc = "done"
    /\ num_cards = 21
    /\ Len(generated_cards) = 21
    /\ progress_callback
    /\ events[Len(events)] = [label |-> "done", step |-> 63, total |-> 63]
    /\ call.fn = "create_card_game_zip"
    /\ \E p \in DOMAIN call.files :
          call.files[p].kind = "rules" /\ call.files[p].data.count = 0

=============================================================================
